---- MODULE Spec2Model ----
(***************************************************************************)
(* Asset loading pipeline of mc/core/assets.py: the AssetManager progress  *)
(* counters and queues, the AssetLoader thread and the Asset state flags.  *)
(*                                                                         *)
(* Two threads are modelled.  The main thread runs the handlers            *)
(* Asset.load, Asset.unload, AssetManager._check_loader_status (the        *)
(* periodic poll) and AssetManager._bcp_client_asset_load one at a time    *)
(* (mainpc).  The loader thread runs AssetLoader.run (lpc).  A handler is  *)
(* split into several steps only where the other thread can observe the    *)
(* intermediate state (the loaded flag, the two queues).                   *)
(***************************************************************************)
EXTENDS Integers, Sequences, FiniteSets, TLC

(***************************************************************************)
(* Bounds and input sets                                                   *)
(***************************************************************************)
\* Load() is not offered once num_assets_to_load has reached this value
\* (MaxOverridePending where the priority argument of load() is exercised).
MaxPending == 2

\* Python's None (callback=None, priority=None, "no asset held").
None == "None"

\* The Asset instances, in the order they were constructed.
AssetOrder == <<"a1", "a2">>
Assets == {AssetOrder[i] : i \in 1..Len(AssetOrder)}

\* config['priority'] values the assets are constructed with, and the
\* configurations (priority of a1, priority of a2) the runs start from.
Priorities == {1, 5, 10}
PriorityConfigs == {<<5, 1>>, <<1, 5>>, <<5, 10>>, <<5, 5>>}

\* Callables handed to load(callback=...); None is accepted as well.
Callables == {"cb1"}
CallbackArgs == Callables \cup {None}

\* The priority argument of Asset.load: None when it is left out (every
\* caller in the repository leaves the default), an integer otherwise.
NoPriority == [none |-> TRUE]
PriorityArg(n) == [value |-> n]
LoadPriorityArgs == {NoPriority}

\* (total, remaining) pairs reported by a BCP client; the handler takes any
\* two integers, remaining > total included.
BcpReports == {<<0, 0>>, <<8, 7>>, <<8, 9>>}

\* A member of a group is the tuple (asset, weight); the bound method
\* AssetGroup._group_member_loaded, registered as a callback of the member
\* assets, is called with the Asset object.  The two are different values.
Member(a, w) == [asset |-> a, weight |-> w]
\* None where a member tuple is expected (_last_asset before the first read).
NoMember == [none |-> TRUE]
AssetObject(a) == [asset |-> a]
GroupMethod == "_group_member_loaded"

\* Asset.config['load']: loaded at boot, or on demand.
LoadKeys == {"preload", "on_demand"}

\* The attribute names asset classes are registered under (mc.images,
\* mc.sounds, mc.videos).
AssetAttributes == {"images", "sounds", "videos"}

VARIABLES
    priority,                 \* Asset.priority
    loading,                  \* Asset.loading
    loaded,                   \* Asset.loaded
    unloading,                \* Asset.unloading
    callbacks,                \* Asset._callbacks
    num_assets_to_load,       \* AssetManager.num_assets_to_load
    num_assets_loaded,        \* AssetManager.num_assets_loaded
    num_bcp_assets_to_load,   \* AssetManager.num_bcp_assets_to_load
    num_bcp_assets_loaded,    \* AssetManager.num_bcp_assets_loaded
    num_bcb_assets_remaining, \* AssetManager.num_bcb_assets_remaining
    loader_queue,             \* AssetManager.loader_queue (the heap list)
    loaded_queue,             \* AssetManager.loaded_queue (FIFO)
    loaded_watcher,           \* AssetManager._loaded_watcher / Clock schedule
    lpc,                      \* position of the loader thread in run()
    held,                     \* local variable `asset` of run()
    mainpc,                   \* position of the main thread
    lastOp,                   \* the handler the main thread entered last
    called,                   \* callbacks invoked by that handler
    posted,                   \* 'loading_assets' events posted by that handler
    polled,                   \* completions taken by that poll
    pollBase,                 \* num_assets_loaded when that poll began, 0 otherwise
    heldPeers,                \* entries left in the queue when held was taken
    decodeCount,              \* _do_load calls per asset since its last unload
    load_key,                 \* Asset.config['load']
    created,                  \* _create_assets has run (init_phase_2)
    todo,                     \* assets the running handler has still to load()
    init_done,                \* mc.init_done
    boot_released,            \* mc.clear_boot_hold('assets') has been called
    clearedNow,               \* the last main-thread step called it
    unloadCalls,              \* _do_unload calls made by the running handler
    run,                      \* AssetLoader._run
    stopLog,                  \* what the loader thread did after stop() began
    crash_queue,              \* messages put on the exception (crash) queue
    g_assets,                 \* AssetGroup.assets: the (asset, weight) members
    g_callbacks,              \* AssetGroup._callbacks
    loading_members,          \* AssetGroup.loading_members
    g_type,                   \* AssetGroup.config['type']
    total_weights,            \* AssetGroup._total_weights
    asset_sequence,           \* AssetGroup._asset_sequence (a deque)
    last_asset,               \* AssetGroup._last_asset
    assets_sent,              \* AssetGroup._assets_sent
    reads,                    \* number of reads of AssetGroup.asset so far
    draw,                     \* value of random.randint in the last read
    returned,                 \* what the last read of AssetGroup.asset returned
    recent,                   \* what the last reads returned, oldest first
    asset_classes,            \* AssetManager._asset_classes
    mc_attributes,            \* names of the attributes the controller mc has
    asset_dicts,              \* mc.<attribute>: the assets of each class
    loadCalls,                \* load() calls made by the running handler
    key_assets,               \* local `assets` of load_assets_by_load_key
    lastHook,                 \* the hook of each watched asset that completed last
    socket,                   \* BCPServer.socket: listening, closed or none
    connection,               \* BCPServer.connection (NoConnection for None)
    done,                     \* BCPServer.done
    mc_done,                  \* mc.done
    bcp_client_connected,     \* mc.bcp_client_connected
    thread_stopper,           \* mc.thread_stopper.is_set()
    events,                   \* events posted by BCPServer.run, oldest first
    receive_queue,            \* BCPServer.receive_queue
    sending_queue,            \* BCPServer.sending_queue
    srvpc,                    \* position of the thread running BCPServer.run
    sndpc,                    \* position of the sending thread
    sndheld,                  \* locals msg, rawbytes of sending_loop
    transmitted,              \* what connection.sendall was given, in order
    stoppc,                   \* position of the caller inside BCPServer.stop
    stopCalls,                \* number of calls of BCPServer.stop so far
    peer,                     \* the clients' ends of the connections
    pending,                  \* connections waiting for accept()
    drained,                  \* connections on which recv returned no data
    exit_on_disconnect,       \* machine_config['mpf-mc']['exit_on_disconnect']
    mc_stops                  \* number of calls of mc.stop() made by run

assetVars == <<priority, loading, loaded, unloading, callbacks>>
counterVars == <<num_assets_to_load, num_assets_loaded>>
bcpVars == <<num_bcp_assets_to_load, num_bcp_assets_loaded,
             num_bcb_assets_remaining>>
loaderVars == <<lpc, held, heldPeers>>
outVars == <<called, posted, polled, pollBase>>
vars == <<priority, loading, loaded, unloading, callbacks,
          num_assets_to_load, num_assets_loaded,
          num_bcp_assets_to_load, num_bcp_assets_loaded,
          num_bcb_assets_remaining,
          loader_queue, loaded_queue, loaded_watcher,
          lpc, held, mainpc, lastOp, called, posted, polled, pollBase,
          heldPeers, decodeCount,
          load_key, created, todo, init_done, boot_released, clearedNow,
          unloadCalls, run, stopLog, crash_queue,
          g_assets, g_callbacks, loading_members, g_type, total_weights,
          asset_sequence, last_asset, assets_sent, reads, draw, returned,
          recent,
          asset_classes, mc_attributes, asset_dicts, loadCalls, key_assets,
          lastHook,
          socket, connection, done, mc_done, bcp_client_connected,
          thread_stopper, events, receive_queue, sending_queue, srvpc, sndpc,
          sndheld, transmitted, stoppc, stopCalls, peer, pending, drained,
          exit_on_disconnect, mc_stops>>

\* The variables of the boot sequence, and all variables that the handlers
\* of the loading pipeline below leave alone unless they say otherwise.
bootVars == <<load_key, created, init_done, boot_released>>
extVars == <<bootVars, todo, clearedNow, unloadCalls>>

\* The state of the loader thread's shutdown and failure, which the
\* handlers of the main thread below leave alone unless they say otherwise.
\* The selection state of the asset group, which only reads of its asset
\* property change, and the state of a group load.
selVars == <<g_assets, g_type, total_weights, asset_sequence, last_asset,
             assets_sent, reads, draw, returned, recent>>
grpVars == <<g_callbacks, loading_members>>
\* The registry of asset classes and the state of load_assets_by_load_key.
regVars == <<asset_classes, mc_attributes, asset_dicts, loadCalls, key_assets>>
\* The most recently completed hook of each asset, which only the decode
\* and unload hooks change.
hookVars == <<lastHook>>
\* The state of the BCP server, which the asset manager leaves alone.
srvVars == <<socket, connection, done, mc_done, bcp_client_connected,
             thread_stopper, events, receive_queue, sending_queue, srvpc,
             sndpc, sndheld, transmitted, stoppc, stopCalls, peer, pending,
             drained, exit_on_disconnect, mc_stops>>
mainRest == <<run, stopLog, crash_queue, selVars, regVars, hookVars, srvVars>>

(***************************************************************************)
(* Asset identity and the queue order (Asset._get_id, Asset.__lt__)        *)
(***************************************************************************)
\* Asset._get_id: the k-th constructed asset gets _id = k.
AssetId(a) == CHOOSE i \in 1..Len(AssetOrder) : AssetOrder[i] = a

\* str() of a non-negative integer, as a sequence of character codes.
RECURSIVE Digits(_)
Digits(n) == IF n < 10 THEN <<48 + n>>
             ELSE Digits(n \div 10) \o <<48 + (n % 10)>>

\* "%s" of an integer: '-' is 45, '0'..'9' are 48..57.
IntToStr(n) == IF n < 0 THEN <<45>> \o Digits(0 - n) ELSE Digits(n)

\* "%s, %s" % (priority, _id): ',' is 44 and ' ' is 32.
FormatKey(p, i) == IntToStr(p) \o <<44, 32>> \o IntToStr(i)

\* Python's s > t on strings: lexicographic by code point.
RECURSIVE StrGt(_, _)
StrGt(s, t) ==
    IF s = <<>> THEN FALSE
    ELSE IF t = <<>> THEN TRUE
    ELSE IF Head(s) # Head(t) THEN Head(s) > Head(t)
    ELSE StrGt(Tail(s), Tail(t))

\* Asset.__lt__ written with '<' in place of '>': the lowest key first.
LtSwapped(pr, x, y) ==
    StrGt(FormatKey(pr[y], AssetId(y)), FormatKey(pr[x], AssetId(x)))

\* Asset.__lt__(self = x, other = y)
Lt(pr, x, y) ==
    StrGt(FormatKey(pr[x], AssetId(x)), FormatKey(pr[y], AssetId(y)))

(***************************************************************************)
(* PriorityQueue.put / get: the binary heap kept by heapq, positions are   *)
(* 0-based as in Python (position p is element p + 1 of the sequence).     *)
(***************************************************************************)
RECURSIVE SiftDownLoop(_, _, _, _, _)
SiftDownLoop(pr, h, startpos, pos, newitem) ==
    IF pos > startpos
    THEN LET parentpos == (pos - 1) \div 2
             parent == h[parentpos + 1]
         IN IF Lt(pr, newitem, parent)
            THEN SiftDownLoop(pr, [h EXCEPT ![pos + 1] = parent], startpos,
                              parentpos, newitem)
            ELSE [h EXCEPT ![pos + 1] = newitem]
    ELSE [h EXCEPT ![pos + 1] = newitem]

\* heapq._siftdown(heap, startpos, pos)
SiftDown(pr, h, startpos, pos) == SiftDownLoop(pr, h, startpos, pos, h[pos + 1])

RECURSIVE SiftUpLoop(_, _, _, _, _)
SiftUpLoop(pr, h, startpos, pos, newitem) ==
    LET endpos == Len(h)
        childpos == 2 * pos + 1
    IN IF childpos < endpos
       THEN LET rightpos == childpos + 1
                c == IF rightpos < endpos /\ ~Lt(pr, h[childpos + 1], h[rightpos + 1])
                     THEN rightpos ELSE childpos
            IN SiftUpLoop(pr, [h EXCEPT ![pos + 1] = h[c + 1]], startpos, c, newitem)
       ELSE SiftDown(pr, [h EXCEPT ![pos + 1] = newitem], startpos, pos)

\* heapq._siftup(heap, pos)
SiftUp(pr, h, pos) == SiftUpLoop(pr, h, pos, pos, h[pos + 1])

\* loader_queue.put(asset): heapq.heappush
HeapPush(pr, h, item) == SiftDown(pr, Append(h, item), 0, Len(h))

\* loader_queue.get(): heapq.heappop, the item returned ...
HeapPopItem(h) == h[1]

\* ... and the heap it leaves behind.
HeapPopRest(pr, h) ==
    LET lastelt == h[Len(h)]
        rest == SubSeq(h, 1, Len(h) - 1)
    IN IF rest = <<>> THEN rest ELSE SiftUp(pr, [rest EXCEPT ![1] = lastelt], 0)

Range(s) == {s[i] : i \in 1..Len(s)}

(***************************************************************************)
(* AssetManager.loading_percent                                            *)
(***************************************************************************)
\* round(n / d) for d > 0 with halves rounded up instead of to even.
RoundHalfUp(n, d) ==
    LET q == n \div d
        r == n - q * d
    IN IF 2 * r >= d THEN q + 1 ELSE q

\* Python 3 round(n / d) for d > 0: to the nearest integer, halves to the
\* even neighbour.  The code rounds the float (n0 / d) * 100; for |d| < 40
\* the float product has the same rounding as the exact quotient 100 n0 / d.
PyRound(n, d) ==
    LET q == n \div d
        r == n - q * d
    IN IF 2 * r < d THEN q
       ELSE IF 2 * r > d THEN q + 1
       ELSE IF q % 2 = 0 THEN q ELSE q + 1

\* loading_percent for given counters; ZeroDivisionError gives 100.
Percent(ld, bl, tl, bt) ==
    LET num == ld + bl
        den == tl + bt
    IN IF den = 0 THEN 100
       ELSE IF den > 0 THEN PyRound(100 * num, den)
       ELSE PyRound(100 * (0 - num), 0 - den)

loading_percent ==
    Percent(num_assets_loaded, num_bcp_assets_loaded,
            num_assets_to_load, num_bcp_assets_to_load)

\* _post_loading_event with `remaining` taken from the local counters alone.
LoadingEventLocalRemaining(ld, bl, tl, bt) ==
    [total |-> tl + bt,
     loaded |-> ld + bl,
     remaining |-> tl - ld,
     percent |-> Percent(ld, bl, tl, bt)]

\* The keyword arguments of events.post('loading_assets', ...) in
\* _post_loading_event, for given counters.
LoadingEvent(ld, bl, tl, bt) ==
    [total |-> tl + bt,
     loaded |-> ld + bl,
     remaining |-> (tl + bt) - ld - bl,
     percent |-> Percent(ld, bl, tl, bt)]

\* _post_loading_event without the events.post call.
PostLoadingEventSilent(evs, ld, bl, tl, bt) == evs

\* _post_loading_event: one events.post('loading_assets', ...) is added to
\* the events evs the running handler has posted.
PostLoadingEvent(evs, ld, bl, tl, bt) == Append(evs, LoadingEvent(ld, bl, tl, bt))

\* callable(callback): a function or a bound method.  The first variant takes
\* every value for callable.
CallableAlways(c) == TRUE
Callable(c) == c \in Callables \cup {GroupMethod}

\* Asset._call_callbacks: the callable members of the set are called with
\* the asset (None and other non-callables are skipped), then the set is
\* emptied.
CallsOf(a, cbs) == {<<a, c>> : c \in {d \in cbs : Callable(d)}}

(***************************************************************************)
(* Initial state: manager constructed, loader thread started, assets       *)
(* constructed with a configured priority, nothing requested yet.          *)
(***************************************************************************)
InitPipeline ==
    /\ loading = [a \in Assets |-> FALSE]
    /\ loaded = [a \in Assets |-> FALSE]
    /\ unloading = [a \in Assets |-> FALSE]
    /\ callbacks = [a \in Assets |-> {}]
    /\ num_assets_to_load = 0
    /\ num_assets_loaded = 0
    /\ num_bcp_assets_to_load = 0
    /\ num_bcp_assets_loaded = 0
    /\ num_bcb_assets_remaining = 0
    /\ loader_queue = <<>>
    /\ loaded_queue = <<>>
    /\ loaded_watcher = FALSE
    /\ lpc = "get"
    /\ held = None
    /\ heldPeers = {}
    /\ mainpc = "idle"
    /\ lastOp = [name |-> "init", asset |-> None, cb |-> None]
    /\ called = {}
    /\ posted = <<>>
    /\ polled = <<>>
    /\ pollBase = 0
    /\ decodeCount = [a \in Assets |-> 0]
    /\ todo = <<>>
    /\ clearedNow = FALSE
    /\ unloadCalls = <<>>
    /\ run = TRUE
    /\ stopLog = <<>>
    /\ crash_queue = <<>>
    /\ g_callbacks = {}
    /\ loading_members = {}

\* One asset class, 'images', has been registered and holds both assets;
\* load_assets_by_load_key is not running.
InitRegistry ==
    /\ asset_classes = <<[attribute |-> "images", priority |-> 100]>>
    /\ mc_attributes = {"events", "images"}
    /\ asset_dicts = [at \in AssetAttributes |->
                         IF at = "images" THEN AssetOrder ELSE <<>>]
    /\ loadCalls = <<>>
    /\ key_assets = {}

\* The hooks _do_load and _do_unload of the watched assets record their
\* completion; no asset is watched unless a specification says otherwise.
InitUnwatched == lastHook = [a \in {} |-> "none"]
InitWatched == lastHook = [a \in Assets |-> "none"]
HookCompleted(hooks, a, hook) ==
    [x \in DOMAIN hooks |-> IF x = a THEN hook ELSE hooks[x]]

\* No BCP server has been constructed.
NoConnection == 0
InitNoServer ==
    /\ socket = "none"
    /\ connection = NoConnection
    /\ done = FALSE
    /\ mc_done = FALSE
    /\ bcp_client_connected = FALSE
    /\ thread_stopper = FALSE
    /\ events = <<>>
    /\ receive_queue = <<>>
    /\ sending_queue = <<>>
    /\ srvpc = "unstarted"
    /\ sndpc = "unstarted"
    /\ sndheld = <<>>
    /\ transmitted = <<>>
    /\ stoppc = "idle"
    /\ stopCalls = 0
    /\ peer = <<>>
    /\ pending = <<>>
    /\ drained = {}
    /\ exit_on_disconnect = FALSE
    /\ mc_stops = 0

\* No asset group is configured.
InitNoGroup ==
    /\ g_assets = <<>>
    /\ g_type = "sequence"
    /\ total_weights = 0
    /\ asset_sequence = <<>>
    /\ last_asset = NoMember
    /\ assets_sent = {}
    /\ reads = 0
    /\ draw = 0
    /\ returned = None
    /\ recent = <<>>

\* The boot sequence is over: the assets were created with nothing to
\* preload, the boot hold was released and mc.init_done is set.
InitBooted ==
    /\ load_key = [a \in Assets |-> "on_demand"]
    /\ created = TRUE
    /\ init_done = TRUE
    /\ boot_released = TRUE

Init ==
    /\ \E c \in PriorityConfigs :
           priority = [a \in Assets |-> c[AssetId(a)]]
    /\ InitPipeline
    /\ InitRegistry
    /\ InitUnwatched
    /\ InitNoServer
    /\ InitBooted
    /\ InitNoGroup

(***************************************************************************)
(* Main thread                                                             *)
(***************************************************************************)
\* Asset.load without the test of the loaded flag.
LoadNeverReturnsEarly(a) == FALSE

\* Asset.load: `if self.loaded:` call the callbacks and return.
LoadReturnsEarly(a) == loaded[a]

\* _load_asset without the increment of num_assets_to_load.
ToLoadNotCounted(n) == n

\* _load_asset: self.num_assets_to_load += 1
ToLoadAfterEnqueue(n) == n + 1

\* _load_asset: `if not self._loaded_watcher:` the poll is scheduled with
\* Clock.schedule_interval.  The first variant forgets to schedule it.
WatcherLeftAlone(watcher) == watcher
WatcherScheduled(watcher) == TRUE

\* _check_loader_status without the reset branch.
AllLoadedNever(tl, ld) == FALSE

\* _check_loader_status: `if self.num_assets_to_load == self.num_assets_loaded`
AllLoaded(tl, ld) == tl = ld

\* AssetGroup._group_member_loaded(asset), when Asset._call_callbacks on the
\* asset a finds it in the callback set cbs: loading_members.discard(asset),
\* and the group's _call_callbacks if the set is then empty.
AfterDiscard(a) == loading_members \ {AssetObject(a)}

\* AssetGroup._call_callbacks: the callable callbacks are called with the
\* group.
GroupCallbackCalls == {<<"group", c>> : c \in {d \in g_callbacks : Callable(d)}}

GroupCalls(a, cbs) ==
    IF GroupMethod \in cbs /\ AfterDiscard(a) = {}
    THEN GroupCallbackCalls
    ELSE {}

GroupMemberLoaded(a, cbs) ==
    IF GroupMethod \in cbs
    THEN /\ loading_members' = AfterDiscard(a)
         /\ g_callbacks' = IF AfterDiscard(a) = {} THEN {} ELSE g_callbacks
    ELSE UNCHANGED grpVars

\* AssetManager.shutdown has set the manager's loader_queue and loaded_queue
\* to None (just before AssetLoader.stop clears _run).
ManagerQueuesGone == ~run

\* The body of Asset.load(callback = cb, priority = p), with
\* AssetManager._load_asset, inside a handler that has called the callbacks
\* `before` so far.  After shutdown, self.loader_queue.put raises
\* AttributeError once the counter has been incremented.
LoadEnqueues(cap, pr, a, cb, before) ==
    /\ num_assets_to_load < cap
    /\ called' = before
    /\ callbacks' = [callbacks EXCEPT ![a] = @ \cup {cb}]
    /\ loading' = [loading EXCEPT ![a] = TRUE]
    /\ num_assets_to_load' = ToLoadAfterEnqueue(num_assets_to_load)
    /\ IF ManagerQueuesGone
       THEN UNCHANGED <<loader_queue, loaded_watcher>>
       ELSE /\ loader_queue' = HeapPush(pr, loader_queue, a)
            /\ loaded_watcher' = WatcherScheduled(loaded_watcher)

\* Asset.load: `if priority is not None: self.priority = priority`.
NewPriority(a, p) ==
    IF p # NoPriority THEN [priority EXCEPT ![a] = p.value] ELSE priority

AssetLoad(cap, a, cb, p, before) ==
    /\ priority' = NewPriority(a, p)
    /\ IF LoadReturnsEarly(a)
       THEN /\ called' = before \cup CallsOf(a, callbacks[a] \cup {cb})
                                \cup GroupCalls(a, callbacks[a] \cup {cb})
            /\ callbacks' = [callbacks EXCEPT ![a] = {}]
            /\ GroupMemberLoaded(a, callbacks[a] \cup {cb})
            /\ UNCHANGED <<loading, num_assets_to_load, loader_queue,
                           loaded_watcher>>
       ELSE /\ LoadEnqueues(cap, NewPriority(a, p), a, cb, before)
            /\ UNCHANGED grpVars

\* A main-thread step that does not reach mc.clear_boot_hold.
NoBootRelease ==
    /\ clearedNow' = FALSE
    /\ UNCHANGED bootVars

\* _post_loading_event: `if not remaining and not self.mc.init_done:`
\* self.mc.clear_boot_hold('assets'), for the remaining count just posted.
BootRelease(remaining) ==
    /\ clearedNow' = (remaining = 0 /\ ~init_done)
    /\ boot_released' = (boot_released \/ (remaining = 0 /\ ~init_done))
    /\ UNCHANGED <<load_key, created, init_done>>

\* Asset.load(callback = cb, priority = p) called on its own, offered while
\* fewer than `cap` loads are pending.
LoadCapped(cap, a, cb, p) ==
    /\ mainpc = "idle"
    /\ pollBase' = 0
    /\ AssetLoad(cap, a, cb, p, {})
    /\ lastOp' = [name |-> "load", asset |-> a, cb |-> cb]
    /\ posted' = <<>>
    /\ polled' = <<>>
    /\ unloadCalls' = <<>>
    /\ NoBootRelease
    /\ UNCHANGED <<loaded, unloading, num_assets_loaded, bcpVars, loaded_queue,
                   loaderVars, mainpc, decodeCount, todo,
                   mainRest>>

Load(a, cb, p) == LoadCapped(MaxPending, a, cb, p)

\* Asset.unload up to the call of the unload hook _do_unload.
UnloadBegin(a) ==
    /\ mainpc = "idle"
    /\ pollBase' = 0
    /\ unloading' = [unloading EXCEPT ![a] = TRUE]
    /\ loaded' = [loaded EXCEPT ![a] = FALSE]
    /\ loading' = [loading EXCEPT ![a] = FALSE]
    /\ mainpc' = "unload"
    /\ lastOp' = [name |-> "unload", asset |-> a, cb |-> None]
    /\ called' = {}
    /\ posted' = <<>>
    /\ polled' = <<>>
    /\ decodeCount' = [decodeCount EXCEPT ![a] = 0]
    /\ unloadCalls' = <<a>>
    /\ NoBootRelease
    /\ UNCHANGED <<priority, callbacks, counterVars, bcpVars, loader_queue,
                   loaded_queue, loaded_watcher, loaderVars, todo,
                   mainRest, grpVars>>

\* Asset.unload: `self.unloading = False` after the hook.  The first
\* variant forgets the assignment.
UnloadingStaysSet(u, a) == u
UnloadingCleared(u, a) == [u EXCEPT ![a] = FALSE]

\* Asset.unload after _do_unload has returned.
UnloadEnd ==
    /\ mainpc = "unload"
    /\ unloading' = UnloadingCleared(unloading, lastOp.asset)
    /\ lastHook' = HookCompleted(lastHook, lastOp.asset, "unload")
    /\ mainpc' = "idle"
    /\ UNCHANGED <<priority, loading, loaded, callbacks, counterVars, bcpVars,
                   loader_queue, loaded_queue, loaded_watcher, loaderVars,
                   lastOp, outVars, decodeCount, extVars,
                   run, stopLog, crash_queue, selVars, regVars, srvVars,
                   grpVars>>

\* Asset._loaded: `self.loading = False` for the asset x.  The first variant
\* forgets the assignment.
LoadedKeepsLoading(ld, x) == ld
LoadedClearsLoading(ld, x) == [ld EXCEPT ![x] = FALSE]

\* The Clock calls _check_loader_status only while it is scheduled; a poll
\* that has begun goes on until it sees the loaded queue empty.
PollBegins == mainpc = "idle" /\ loaded_watcher
PollRunning == mainpc = "poll"

\* _check_loader_status: one pass of the while loop (Asset._loaded, the
\* counter and _post_loading_event for one completion).
PollIter ==
    /\ PollBegins \/ PollRunning
    /\ ~ManagerQueuesGone
    /\ loaded_queue # <<>>
    /\ LET x == Head(loaded_queue)
           ld == num_assets_loaded + 1
       IN /\ loaded_queue' = Tail(loaded_queue)
          /\ loading' = LoadedClearsLoading(loading, x)
          /\ loaded' = [loaded EXCEPT ![x] = TRUE]
          /\ unloading' = [unloading EXCEPT ![x] = FALSE]
          /\ called' = (IF PollBegins THEN {} ELSE called)
                          \cup CallsOf(x, callbacks[x])
                          \cup GroupCalls(x, callbacks[x])
          /\ GroupMemberLoaded(x, callbacks[x])
          /\ callbacks' = [callbacks EXCEPT ![x] = {}]
          /\ num_assets_loaded' = ld
          /\ posted' = PostLoadingEvent(IF PollBegins THEN <<>> ELSE posted,
                                        ld, num_bcp_assets_loaded,
                                        num_assets_to_load,
                                        num_bcp_assets_to_load)
          /\ polled' = Append(IF PollBegins THEN <<>> ELSE polled, x)
          /\ BootRelease(LoadingEvent(ld, num_bcp_assets_loaded,
                                      num_assets_to_load,
                                      num_bcp_assets_to_load).remaining)
    /\ pollBase' = IF PollBegins THEN num_assets_loaded ELSE pollBase
    /\ mainpc' = "poll"
    /\ lastOp' = [name |-> "poll", asset |-> None, cb |-> None]
    /\ unloadCalls' = <<>>
    /\ UNCHANGED <<priority, num_assets_to_load, bcpVars, loader_queue,
                   loaded_watcher, loaderVars, decodeCount, todo,
                   mainRest>>

\* _check_loader_status: the loop sees the loaded queue empty (or the
\* AttributeError of a queue that is gone is caught), then the counters are
\* compared and reset.
PollFinish ==
    /\ PollBegins \/ PollRunning
    /\ loaded_queue = <<>> \/ ManagerQueuesGone
    /\ IF AllLoaded(num_assets_to_load, num_assets_loaded)
       THEN /\ num_assets_loaded' = 0
            /\ num_assets_to_load' = 0
            /\ loaded_watcher' = FALSE
       ELSE UNCHANGED <<num_assets_loaded, num_assets_to_load, loaded_watcher>>
    /\ called' = IF PollBegins THEN {} ELSE called
    /\ posted' = IF PollBegins THEN <<>> ELSE posted
    /\ polled' = IF PollBegins THEN <<>> ELSE polled
    /\ pollBase' = IF PollBegins THEN num_assets_loaded ELSE pollBase
    /\ mainpc' = "idle"
    /\ lastOp' = [name |-> "poll", asset |-> None, cb |-> None]
    /\ unloadCalls' = <<>>
    /\ NoBootRelease
    /\ UNCHANGED <<assetVars, bcpVars, loader_queue, loaded_queue, loaderVars,
                   decodeCount, todo,
                   mainRest, grpVars>>

\* _bcp_client_asset_load(total, remaining), with _post_loading_event.
BcpClientAssetLoad(total, remaining) ==
    /\ mainpc = "idle"
    /\ pollBase' = 0
    /\ num_bcp_assets_loaded' = total - remaining
    /\ num_bcp_assets_to_load' = total
    /\ num_bcb_assets_remaining' = remaining
    /\ posted' = PostLoadingEvent(<<>>, num_assets_loaded, total - remaining,
                                  num_assets_to_load, total)
    /\ called' = {}
    /\ polled' = <<>>
    /\ lastOp' = [name |-> "bcp", asset |-> None, cb |-> None,
                  total |-> total, remaining |-> remaining]
    /\ unloadCalls' = <<>>
    /\ BootRelease(LoadingEvent(num_assets_loaded, total - remaining,
                                num_assets_to_load, total).remaining)
    /\ UNCHANGED <<assetVars, counterVars, loader_queue, loaded_queue,
                   loaded_watcher, loaderVars, mainpc, decodeCount,
                   todo,
                   mainRest, grpVars>>

(***************************************************************************)
(* Loader thread: AssetLoader.run                                          *)
(***************************************************************************)
\* What the loader thread does once stop() has cleared _run is recorded.
LogAfterStop(event) == IF run THEN stopLog ELSE Append(stopLog, event)

\* asset = self.loader_queue.get(block=True, timeout=.1) returns an entry.
LoaderGet ==
    /\ lpc = "get"
    /\ loader_queue # <<>>
    /\ held' = HeapPopItem(loader_queue)
    /\ loader_queue' = HeapPopRest(priority, loader_queue)
    /\ heldPeers' = Range(HeapPopRest(priority, loader_queue))
    /\ lpc' = "test"
    /\ UNCHANGED <<run, stopLog, crash_queue, selVars, regVars, hookVars,
                   srvVars, grpVars>>
    /\ UNCHANGED <<assetVars, counterVars, bcpVars, loaded_queue,
                   loaded_watcher, mainpc, lastOp, outVars, decodeCount,
                   extVars>>

\* asset = self.loader_queue.get(block=True, timeout=.1) finds the queue
\* empty until the timeout: `except Empty: asset = None`.
LoaderGetTimeout ==
    /\ lpc = "get"
    /\ loader_queue = <<>>
    /\ held' = None
    /\ heldPeers' = {}
    /\ lpc' = "test"
    /\ UNCHANGED <<run, stopLog, crash_queue, selVars, regVars, hookVars,
                   srvVars, grpVars>>
    /\ UNCHANGED <<assetVars, counterVars, bcpVars, loader_queue, loaded_queue,
                   loaded_watcher, mainpc, lastOp, outVars, decodeCount,
                   extVars>>

\* `if not self._run: break` ends the thread, with or without an entry in
\* hand; otherwise `if asset:` goes on with the entry, or round the loop
\* after a timeout.
LoaderTestRun ==
    /\ lpc = "test"
    /\ lpc' = IF ~run THEN "exited"
              ELSE IF held = None THEN "get" ELSE "check"
    /\ UNCHANGED <<run, stopLog, crash_queue, selVars, regVars, hookVars,
                   srvVars, grpVars>>
    /\ UNCHANGED <<assetVars, counterVars, bcpVars, loader_queue, loaded_queue,
                   loaded_watcher, held, heldPeers, mainpc, lastOp, outVars,
                   decodeCount, extVars>>

\* if not asset.loaded: with asset.lock: asset._do_load() is entered.
LoaderCheck ==
    /\ lpc = "check"
    /\ IF loaded[held]
       THEN /\ lpc' = "put"
            /\ UNCHANGED <<decodeCount, stopLog>>
       ELSE /\ lpc' = "decoding"
            /\ decodeCount' = [decodeCount EXCEPT ![held] = @ + 1]
            /\ stopLog' = LogAfterStop(<<"decode", held>>)
    /\ UNCHANGED <<run, crash_queue, selVars, regVars, hookVars, srvVars,
                   grpVars>>
    /\ UNCHANGED <<assetVars, counterVars, bcpVars, loader_queue, loaded_queue,
                   loaded_watcher, held, heldPeers, mainpc, lastOp, outVars,
                   extVars>>

\* asset._do_load() returns and the lock is released.
LoaderDecoded ==
    /\ lpc = "decoding"
    /\ lpc' = "put"
    /\ stopLog' = LogAfterStop(<<"decoded", held>>)
    /\ lastHook' = HookCompleted(lastHook, held, "decode")
    /\ UNCHANGED <<run, crash_queue, selVars, regVars, srvVars,
                   grpVars>>
    /\ UNCHANGED <<assetVars, counterVars, bcpVars, loader_queue, loaded_queue,
                   loaded_watcher, held, heldPeers, mainpc, lastOp, outVars,
                   decodeCount, extVars>>

\* self.loaded_queue.put(asset), for decoded and skipped entries alike.  The
\* first variant drops the entry.
ResultsWithoutEntry(results, asset) == results
ResultsAfterPut(results, asset) == Append(results, asset)

LoaderPut ==
    /\ lpc = "put"
    /\ loaded_queue' = ResultsAfterPut(loaded_queue, held)
    /\ held' = None
    /\ heldPeers' = {}
    /\ lpc' = "get"
    /\ stopLog' = LogAfterStop(<<"put", held>>)
    /\ UNCHANGED <<run, crash_queue, selVars, regVars, hookVars, srvVars,
                   grpVars>>
    /\ UNCHANGED <<assetVars, counterVars, bcpVars, loader_queue,
                   loaded_watcher, mainpc, lastOp, outVars, decodeCount,
                   extVars>>

Next ==
    \/ \E a \in Assets, cb \in CallbackArgs, p \in LoadPriorityArgs : Load(a, cb, p)
    \/ \E a \in Assets : UnloadBegin(a)
    \/ UnloadEnd
    \/ PollIter
    \/ PollFinish
    \/ \E r \in BcpReports : BcpClientAssetLoad(r[1], r[2])
    \/ LoaderGet
    \/ LoaderGetTimeout
    \/ LoaderTestRun
    \/ LoaderCheck
    \/ LoaderDecoded
    \/ LoaderPut

Spec == Init /\ [][Next]_vars

TypeOK ==
    /\ priority \in [Assets -> Priorities]
    /\ loading \in [Assets -> BOOLEAN]
    /\ loaded \in [Assets -> BOOLEAN]
    /\ unloading \in [Assets -> BOOLEAN]
    /\ \A a \in DOMAIN lastHook : lastHook[a] \in {"none", "decode", "unload"}
    /\ callbacks \in [Assets -> SUBSET (CallbackArgs \cup {GroupMethod})]
    /\ num_assets_to_load \in 0..MaxPending
    /\ num_assets_loaded \in 0..MaxPending
    /\ loaded_watcher \in BOOLEAN
    /\ held \in Assets \cup {None}
    /\ mainpc \in {"idle", "poll", "unload", "create", "stop",
                 "group_load", "load_key"}
    /\ lpc \in {"get", "test", "check", "decoding", "put", "exited", "crashed"}
    /\ run \in BOOLEAN
    /\ load_key \in [Assets -> LoadKeys]
    /\ created \in BOOLEAN
    /\ init_done \in BOOLEAN
    /\ boot_released \in BOOLEAN
    /\ clearedNow \in BOOLEAN

(***************************************************************************)
(* Steps of the main thread, recognised by what they change: every loader  *)
(* step changes lpc, no main-thread step does, and every handler records   *)
(* itself in lastOp when it is entered.                                    *)
(***************************************************************************)
MainStep == lpc' = lpc

LoadStep(a) ==
    /\ MainStep
    /\ mainpc = "idle"
    /\ lastOp'.name = "load"
    /\ lastOp'.asset = a

PollIterStep ==
    /\ MainStep
    /\ lastOp'.name = "poll"
    /\ mainpc' = "poll"

PollFinishStep ==
    /\ MainStep
    /\ mainpc \in {"idle", "poll"}
    /\ lastOp'.name = "poll"
    /\ mainpc' = "idle"

BcpStep ==
    /\ MainStep
    /\ mainpc = "idle"
    /\ lastOp'.name = "bcp"

UnloadBeginStep ==
    /\ MainStep
    /\ mainpc = "idle"
    /\ mainpc' = "unload"

UnloadEndStep ==
    /\ MainStep
    /\ mainpc = "unload"
    /\ mainpc' = "idle"

Abs(n) == IF n < 0 THEN 0 - n ELSE n

(***************************************************************************)
(* C1.  Whenever the loader has taken an entry from the loader queue, no   *)
(* entry that was in the queue with it has a strictly higher priority      *)
(* (the asset with the higher integer priority is dequeued first).         *)
(***************************************************************************)
C1_HigherPriorityFirst ==
    held # None =>
        \A y \in heldPeers : priority[y] <= priority[held]

(***************************************************************************)
(* C2.  Whenever the loader has taken an entry from the loader queue,      *)
(* every other asset of the same priority that was in the queue with it    *)
(* has a larger creation id (FIFO within a priority), and two distinct     *)
(* assets never compare as equal in the queue order.                       *)
(***************************************************************************)
C2_FifoWithinPriority ==
    /\ held # None =>
           \A y \in heldPeers :
               (y # held /\ priority[y] = priority[held])
                   => AssetId(held) < AssetId(y)
    /\ \A x, y \in Assets : x # y => (Lt(priority, x, y) \/ Lt(priority, y, x))

(***************************************************************************)
(* C3 as claimed.  For a priority-5 asset a and a priority-1 asset b that  *)
(* have both been load()-ed and are still loading: if the decode hook of b *)
(* has been invoked, the decode hook of a has been invoked too (b is never *)
(* decoded ahead of a), whatever the interleaving with the loader thread.  *)
(***************************************************************************)
C3_DecodeOrderAnyInterleaving ==
    \A a, b \in Assets :
        (/\ priority[a] = 5
         /\ priority[b] = 1
         /\ loading[a]
         /\ loading[b]
         /\ decodeCount[b] > 0)
            => decodeCount[a] > 0

(***************************************************************************)
(* C3 as amended.  The loader is never inside the decode hook of a         *)
(* priority-1 asset whose entry shared the loader queue with an entry of a *)
(* priority-5 asset at the moment it was dequeued: when both entries are   *)
(* in the queue together the priority-5 asset is taken and decoded first.  *)
(***************************************************************************)
C3_DecodeOrderWhenQueuedTogether ==
    (lpc = "decoding" /\ priority[held] = 1)
        => \A a \in heldPeers : priority[a] # 5

\* The loader is decoding the priority-5 asset; the priority-1 asset was in
\* the queue with it, has been load()-ed and has not been decoded.
C3_Witness ==
    /\ lpc = "decoding"
    /\ priority[held] = 5
    /\ \E b \in heldPeers : priority[b] = 1 /\ loading[b] /\ decodeCount[b] = 0
    /\ loading[held]

(***************************************************************************)
(* C4.  A load() on an asset whose loaded flag is true calls the           *)
(* registered callbacks (the one just passed included) within the call,    *)
(* leaves the callback set empty, and changes neither the loader queue,    *)
(* num_assets_to_load, num_assets_loaded nor the loading / loaded flags.   *)
(***************************************************************************)
C4_LoadOnLoadedAsset ==
    [][\A a \in Assets :
          (LoadStep(a) /\ loaded[a]) =>
              /\ called' = CallsOf(a, callbacks[a] \cup {lastOp'.cb})
              /\ callbacks'[a] = {}
              /\ loader_queue' = loader_queue
              /\ num_assets_to_load' = num_assets_to_load
              /\ num_assets_loaded' = num_assets_loaded
              /\ loading' = loading
              /\ loaded' = loaded
              /\ mainpc' = "idle"]_vars

\* A load(cb1) on a loaded asset has just returned, having called cb1.
C4_Witness ==
    /\ lastOp.name = "load"
    /\ mainpc = "idle"
    /\ loaded[lastOp.asset]
    /\ called = {<<lastOp.asset, "cb1">>}
    /\ callbacks[lastOp.asset] = {}

(***************************************************************************)
(* C5.  The decode hook of an asset is invoked at most once between two    *)
(* unloads of it, also when the asset has duplicate loader-queue entries.  *)
(***************************************************************************)
C5_DecodeAtMostOnce ==
    \A a \in Assets : decodeCount[a] <= 1

(***************************************************************************)
(* C6.  In every reachable state 0 <= num_assets_loaded <=                 *)
(* num_assets_to_load.                                                     *)
(***************************************************************************)
C6_LoadedWithinPending ==
    /\ 0 <= num_assets_loaded
    /\ num_assets_loaded <= num_assets_to_load

\* One of two requested loads has been counted by a poll, the other entry
\* is still outstanding.
C6_Witness ==
    /\ num_assets_loaded = 1
    /\ num_assets_to_load = 2
    /\ lastOp.name = "poll"
    /\ mainpc = "idle"

(***************************************************************************)
(* C7.  Every pass of the poll loop removes the head of the loaded queue,  *)
(* marks that asset loaded, adds exactly 1 to num_assets_loaded and posts  *)
(* exactly one 'loading_assets' event; the poll ends only when the loaded  *)
(* queue is empty, and a poll that took k completions has then raised      *)
(* num_assets_loaded by k (before the reset) and posted k events.          *)
(***************************************************************************)
C7_PollDrainsAndCounts ==
    [][/\ PollIterStep =>
            /\ loaded_queue # <<>>
            /\ loaded_queue' = Tail(loaded_queue)
            /\ loaded'[Head(loaded_queue)]
            /\ ~loading'[Head(loaded_queue)]
            /\ num_assets_loaded' = num_assets_loaded + 1
            /\ Len(posted') = (IF mainpc = "poll" THEN Len(posted) ELSE 0) + 1
            /\ polled' = Append(IF mainpc = "poll" THEN polled ELSE <<>>,
                                Head(loaded_queue))
       /\ PollFinishStep =>
            /\ loaded_queue = <<>>
            /\ loaded_queue' = <<>>
            /\ Len(posted') = Len(polled')
            /\ num_assets_loaded = pollBase' + Len(polled')
            /\ \A i \in 1..Len(polled') : loaded'[polled'[i]]]_vars

\* A poll that found two completions has ended: two events were posted.
C7_Witness ==
    /\ lastOp.name = "poll"
    /\ mainpc = "idle"
    /\ Len(polled) = 2
    /\ Len(posted) = 2
    /\ posted[2].loaded = posted[1].loaded + 1

(***************************************************************************)
(* C8.  When a poll ends with num_assets_loaded = num_assets_to_load, both *)
(* counters are 0 afterwards and the poll is unscheduled; a poll that      *)
(* finds the loaded queue empty while num_assets_loaded <                  *)
(* num_assets_to_load changes no counter, posts no event and stays         *)
(* scheduled; every enqueue leaves the poll scheduled.                     *)
(***************************************************************************)
C8_ResetAndUnschedule ==
    [][/\ (PollFinishStep /\ num_assets_loaded = num_assets_to_load) =>
            /\ num_assets_loaded' = 0
            /\ num_assets_to_load' = 0
            /\ ~loaded_watcher'
       /\ (PollFinishStep /\ mainpc = "idle"
             /\ num_assets_loaded < num_assets_to_load) =>
            /\ loaded_queue = <<>>
            /\ num_assets_loaded' = num_assets_loaded
            /\ num_assets_to_load' = num_assets_to_load
            /\ posted' = <<>>
            /\ loaded_watcher'
       /\ \A a \in Assets :
            (LoadStep(a) /\ Len(loader_queue') > Len(loader_queue))
                => loaded_watcher']_vars

\* A poll has counted the last outstanding completion and reset the
\* counters; the poll is no longer scheduled.
C8_Witness ==
    /\ lastOp.name = "poll"
    /\ mainpc = "idle"
    /\ Len(polled) >= 1
    /\ num_assets_loaded = 0
    /\ num_assets_to_load = 0
    /\ ~loaded_watcher

(***************************************************************************)
(* C9.  loading_percent is 100 when num_assets_to_load +                   *)
(* num_bcp_assets_to_load is 0; otherwise it is the integer nearest to     *)
(* 100 * (loaded + bcp loaded) / (to load + bcp to load), the even one of  *)
(* the two when the quotient lies halfway (Python's round).                *)
(***************************************************************************)
C9_PercentIsRoundedRatio ==
    LET num == num_assets_loaded + num_bcp_assets_loaded
        den == num_assets_to_load + num_bcp_assets_to_load
        r == loading_percent
        err == 2 * Abs(100 * num - r * den)
    IN /\ den = 0 => r = 100
       /\ den # 0 => /\ err <= Abs(den)
                     /\ err = Abs(den) => r % 2 = 0

\* 1 of 8 assets loaded: 12.5 is rounded to 12.
C9_Witness ==
    /\ num_assets_loaded + num_bcp_assets_loaded = 1
    /\ num_assets_to_load + num_bcp_assets_to_load = 8
    /\ loading_percent = 12

(***************************************************************************)
(* C10.  loading_percent is an integer between 0 and 100 inclusive in      *)
(* every state reached by loads, polls and BCP progress reports.           *)
(***************************************************************************)
C10_PercentRange ==
    loading_percent \in 0..100

(***************************************************************************)
(* C11.  A BCP progress report (total, remaining) sets                     *)
(* num_bcp_assets_to_load = total and num_bcp_assets_loaded = total -      *)
(* remaining, leaves num_assets_to_load and num_assets_loaded unchanged    *)
(* and posts exactly one 'loading_assets' event with total = to load +     *)
(* total, loaded = loaded + (total - remaining) and remaining = (to load - *)
(* loaded) + remaining.                                                    *)
(***************************************************************************)
C11_RemoteProgressReport ==
    [][BcpStep =>
          LET t == lastOp'.total
              r == lastOp'.remaining
          IN /\ num_bcp_assets_to_load' = t
             /\ num_bcp_assets_loaded' = t - r
             /\ num_assets_to_load' = num_assets_to_load
             /\ num_assets_loaded' = num_assets_loaded
             /\ Len(posted') = 1
             /\ posted'[1].total = num_assets_to_load + t
             /\ posted'[1].loaded = num_assets_loaded + (t - r)
             /\ posted'[1].remaining =
                    (num_assets_to_load - num_assets_loaded) + r]_vars

\* The report (8, 7) has arrived while one of two local assets was still
\* outstanding: the event says 8 remain.
C11_Witness ==
    /\ lastOp.name = "bcp"
    /\ lastOp.total = 8
    /\ lastOp.remaining = 7
    /\ num_assets_to_load = 2
    /\ num_assets_loaded = 1
    /\ num_bcp_assets_loaded = 1
    /\ Len(posted) = 1
    /\ posted[1].remaining = 8

(***************************************************************************)
(* The boot sequence: AssetManager._create_assets on init_phase_2, the     *)
(* preload assets and the boot hold 'assets' of the media controller.      *)
(***************************************************************************)
\* preload_assets: the assets whose config['load'] is 'preload'.
RECURSIVE PreloadFrom(_)
PreloadFrom(order) ==
    IF order = <<>> THEN <<>>
    ELSE IF load_key[Head(order)] = "preload"
         THEN <<Head(order)>> \o PreloadFrom(Tail(order))
         ELSE PreloadFrom(Tail(order))

preload_assets == PreloadFrom(AssetOrder)

\* _create_assets: the asset objects are created, which puts them into the
\* dictionary of their class, and preload_assets is built.
CreateAssetsBegin ==
    /\ mainpc = "idle"
    /\ ~created
    /\ created' = TRUE
    /\ asset_dicts' = [asset_dicts EXCEPT !["images"] = AssetOrder]
    /\ todo' = preload_assets
    /\ mainpc' = "create"
    /\ lastOp' = [name |-> "create", asset |-> None, cb |-> None]
    /\ called' = {}
    /\ posted' = <<>>
    /\ polled' = <<>>
    /\ unloadCalls' = <<>>
    /\ clearedNow' = FALSE
    /\ UNCHANGED <<assetVars, counterVars, bcpVars, loader_queue, loaded_queue,
                   loaded_watcher, loaderVars, pollBase, decodeCount,
                   load_key, init_done, boot_released,
                   run, stopLog, crash_queue, selVars, asset_classes,
                   mc_attributes, loadCalls, key_assets, hookVars, srvVars,
                   grpVars>>

\* _create_assets: `for asset in preload_assets: asset.load()`, one asset.
CreateAssetsLoad ==
    /\ mainpc = "create"
    /\ todo # <<>>
    /\ AssetLoad(MaxPending, Head(todo), None, NoPriority, called)
    /\ todo' = Tail(todo)
    /\ NoBootRelease
    /\ UNCHANGED <<loaded, unloading, num_assets_loaded, bcpVars, loaded_queue,
                   loaderVars, mainpc, lastOp, posted, polled, pollBase,
                   decodeCount, unloadCalls,
                   mainRest>>

\* _create_assets: `if not preload_assets: self.mc.clear_boot_hold('assets')`.
CreateAssetsEnd ==
    /\ mainpc = "create"
    /\ todo = <<>>
    /\ clearedNow' = (preload_assets = <<>>)
    /\ boot_released' = (boot_released \/ preload_assets = <<>>)
    /\ mainpc' = "idle"
    /\ UNCHANGED <<assetVars, counterVars, bcpVars, loader_queue, loaded_queue,
                   loaded_watcher, loaderVars, lastOp, outVars, decodeCount,
                   load_key, created, init_done, todo, unloadCalls,
                   mainRest, grpVars>>

\* The media controller finishes its boot sequence and sets mc.init_done;
\* the created assets and the released 'assets' hold are preconditions.
InitDone ==
    /\ mainpc = "idle"
    /\ created
    /\ boot_released
    /\ ~init_done
    /\ init_done' = TRUE
    /\ clearedNow' = FALSE
    /\ lastOp' = [name |-> "init_done", asset |-> None, cb |-> None]
    /\ UNCHANGED <<assetVars, counterVars, bcpVars, loader_queue, loaded_queue,
                   loaded_watcher, loaderVars, mainpc, outVars, decodeCount,
                   load_key, created, boot_released, todo, unloadCalls,
                   mainRest, grpVars>>

BootPriorities == <<5, 1>>

\* The class 'images' has been registered; no asset has been created yet.
InitBoot ==
    /\ priority = [a \in Assets |-> BootPriorities[AssetId(a)]]
    /\ InitPipeline
    /\ asset_classes = <<[attribute |-> "images", priority |-> 100]>>
    /\ mc_attributes = {"events", "images"}
    /\ asset_dicts = [at \in AssetAttributes |-> <<>>]
    /\ loadCalls = <<>>
    /\ key_assets = {}
    /\ InitUnwatched
    /\ InitNoServer
    /\ InitNoGroup
    /\ load_key \in [Assets -> LoadKeys]
    /\ created = FALSE
    /\ init_done = FALSE
    /\ boot_released = FALSE

NextBoot ==
    \/ CreateAssetsBegin
    \/ CreateAssetsLoad
    \/ CreateAssetsEnd
    \/ InitDone
    \/ \E a \in Assets : created /\ Load(a, None, NoPriority)
    \/ PollIter
    \/ PollFinish
    \/ \E r \in BcpReports : BcpClientAssetLoad(r[1], r[2])
    \/ LoaderGet
    \/ LoaderGetTimeout
    \/ LoaderTestRun
    \/ LoaderCheck
    \/ LoaderDecoded
    \/ LoaderPut

SpecBoot == InitBoot /\ [][NextBoot]_vars

\* The combined local + remote remaining count.
CombinedRemaining ==
    (num_assets_to_load - num_assets_loaded) + num_bcb_assets_remaining

(***************************************************************************)
(* C12.  Every call of clear_boot_hold('assets') is the first one, is made *)
(* while boot is not yet complete, and is made when the combined local +   *)
(* remote remaining count is 0.                                            *)
(***************************************************************************)
C12_BootGateReleasedOnce ==
    [][(MainStep /\ clearedNow') =>
          /\ ~boot_released
          /\ ~init_done
          /\ CombinedRemaining' = 0]_vars

(***************************************************************************)
(* C13.  In every reachable state no asset has both loading = true and     *)
(* loaded = true.                                                          *)
(***************************************************************************)
C13_NotLoadingAndLoaded ==
    \A a \in Assets : ~(loading[a] /\ loaded[a])

\* An asset that was requested twice has been marked loaded by the poll
\* while its second entry is still waiting in the loader queue.
C13_Witness ==
    \E a \in Assets :
        /\ loaded[a]
        /\ ~loading[a]
        /\ a \in Range(loader_queue)
        /\ lastOp.name = "poll"
        /\ a \in Range(polled)

(***************************************************************************)
(* C14.  unload() calls the unload hook exactly once, on the main thread;  *)
(* when it returns the asset has loaded, loading and unloading all false;  *)
(* unloading is true only for the asset of an unload() that is executing;  *)
(* and neither step of unload() changes a progress counter or the          *)
(* contents of the loader queue or the results queue.                      *)
(***************************************************************************)
C14_UnloadIsSynchronous ==
    /\ [](\A a \in Assets :
             unloading[a] => (mainpc = "unload" /\ lastOp.asset = a))
    /\ [][UnloadBeginStep =>
             /\ unloadCalls' = <<lastOp'.asset>>
             /\ unloading'[lastOp'.asset]
             /\ UNCHANGED <<counterVars, bcpVars, loader_queue, loaded_queue>>
         ]_vars
    /\ [][UnloadEndStep =>
             /\ unloadCalls' = <<lastOp.asset>>
             /\ ~loaded'[lastOp.asset]
             /\ ~loading'[lastOp.asset]
             /\ ~unloading'[lastOp.asset]
             /\ UNCHANGED <<counterVars, bcpVars, loader_queue, loaded_queue>>
         ]_vars

\* unload() has returned on an asset that was loading: its entry is still
\* in the loader queue and still counted as outstanding.
C14_Witness ==
    /\ lastOp.name = "unload"
    /\ mainpc = "idle"
    /\ unloadCalls = <<lastOp.asset>>
    /\ lastOp.asset \in Range(loader_queue)
    /\ num_assets_to_load > 0
    /\ ~loading[lastOp.asset]
    /\ ~unloading[lastOp.asset]

(***************************************************************************)
(* Shutdown: AssetManager.shutdown and AssetLoader.stop on the main        *)
(* thread, and the loader thread leaving its loop.                         *)
(***************************************************************************)
\* AssetManager.shutdown: both queue attributes of the manager become None;
\* AssetLoader.stop: self._run = False.  A decode that is running now is
\* noted first in the log.
ShutdownBegin ==
    /\ mainpc = "idle"
    /\ run
    /\ run' = FALSE
    /\ stopLog' = IF lpc = "decoding" THEN <<<<"in_decode", held>>>> ELSE <<>>
    /\ mainpc' = "stop"
    /\ lastOp' = [name |-> "shutdown", asset |-> None, cb |-> None]
    /\ called' = {}
    /\ posted' = <<>>
    /\ polled' = <<>>
    /\ unloadCalls' = <<>>
    /\ NoBootRelease
    /\ UNCHANGED <<assetVars, counterVars, bcpVars, loader_queue, loaded_queue,
                   loaded_watcher, loaderVars, pollBase, decodeCount, todo,
                   crash_queue, selVars, regVars, hookVars, srvVars,
                   grpVars>>

\* AssetLoader.stop: `if self.is_alive(): self.join()` returns.  The first
\* variant does not wait for the thread.
JoinWithoutWaiting == TRUE
JoinReturns == lpc \in {"exited", "crashed"}

\* AssetLoader.stop after the join: both queues are drained and the
\* loader's references are set to None.
ShutdownEnd ==
    /\ mainpc = "stop"
    /\ JoinReturns
    /\ loader_queue' = <<>>
    /\ loaded_queue' = <<>>
    /\ mainpc' = "idle"
    /\ UNCHANGED <<assetVars, counterVars, bcpVars, loaded_watcher,
                   loaderVars, lastOp, outVars, decodeCount, extVars,
                   mainRest, grpVars>>

ShutdownPriorities == <<5, 1>>

InitShutdown ==
    /\ priority = [a \in Assets |-> ShutdownPriorities[AssetId(a)]]
    /\ InitPipeline
    /\ InitRegistry
    /\ InitUnwatched
    /\ InitNoServer
    /\ InitBooted
    /\ InitNoGroup

NextShutdown ==
    \/ \E a \in Assets : Load(a, None, NoPriority)
    \/ \E a \in Assets : UnloadBegin(a)
    \/ UnloadEnd
    \/ PollIter
    \/ PollFinish
    \/ ShutdownBegin
    \/ ShutdownEnd
    \/ LoaderGet
    \/ LoaderGetTimeout
    \/ LoaderTestRun
    \/ LoaderCheck
    \/ LoaderDecoded
    \/ LoaderPut

\* Every decode terminates and the loader thread keeps running until it
\* leaves its loop; a join returns once the thread has ended.
FairShutdown ==
    /\ WF_vars(LoaderGet)
    /\ WF_vars(LoaderGetTimeout)
    /\ WF_vars(LoaderTestRun)
    /\ WF_vars(LoaderCheck)
    /\ WF_vars(LoaderDecoded)
    /\ WF_vars(LoaderPut)
    /\ WF_vars(ShutdownEnd)

SpecShutdown == InitShutdown /\ [][NextShutdown]_vars /\ FairShutdown

StopRequested == ~run
StopReturned == ~run /\ mainpc # "stop"

(***************************************************************************)
(* C15.  A requested shutdown eventually returns; when it has returned the *)
(* loader thread has exited, both queues are empty and a decode that was   *)
(* running when stop was requested has completed; and after the return no  *)
(* decode is started and nothing is added to either queue.                 *)
(***************************************************************************)
C15_ShutdownIsSynchronous ==
    /\ StopRequested ~> StopReturned
    /\ [](StopReturned =>
             /\ lpc = "exited"
             /\ loader_queue = <<>>
             /\ loaded_queue = <<>>
             /\ \A a \in Assets :
                    <<"in_decode", a>> \in Range(stopLog)
                        => <<"decoded", a>> \in Range(stopLog))
    /\ [][StopReturned =>
             /\ \A a \in Assets : decodeCount'[a] <= decodeCount[a]
             /\ stopLog' = stopLog
             /\ lpc' = lpc
             /\ loader_queue' = <<>>
             /\ loaded_queue' = <<>>]_vars

\* Shutdown has returned after waiting for a running decode: the decode
\* completed and put its result, the second waiting entry was dropped, and
\* a load() after the shutdown was counted without being enqueued.
C15_Witness ==
    /\ StopReturned
    /\ \E a \in Assets :
          stopLog = <<<<"in_decode", a>>, <<"decoded", a>>, <<"put", a>>>>
    /\ lastOp.name = "load"
    /\ num_assets_to_load = 2
    /\ loader_queue = <<>>

(***************************************************************************)
(* A decode hook that raises: the except clause of AssetLoader.run.        *)
(***************************************************************************)
\* asset._do_load() raises: the formatted traceback is put on the exception
\* queue and run returns, so the thread ends.
LoaderDecodeFails ==
    /\ lpc = "decoding"
    /\ lpc' = "crashed"
    /\ crash_queue' = Append(crash_queue, <<"traceback", held>>)
    /\ UNCHANGED <<assetVars, counterVars, bcpVars, loader_queue, loaded_queue,
                   loaded_watcher, held, heldPeers, mainpc, lastOp, outVars,
                   decodeCount, extVars, run, stopLog, selVars, regVars,
                   hookVars, srvVars,
                   grpVars>>

CrashPriorities == <<5, 1>>

InitCrash ==
    /\ priority = [a \in Assets |-> CrashPriorities[AssetId(a)]]
    /\ InitPipeline
    /\ InitRegistry
    /\ InitUnwatched
    /\ InitNoServer
    /\ InitBooted
    /\ InitNoGroup

NextCrash ==
    \/ \E a \in Assets, cb \in CallbackArgs : Load(a, cb, NoPriority)
    \/ PollIter
    \/ PollFinish
    \/ LoaderGet
    \/ LoaderGetTimeout
    \/ LoaderTestRun
    \/ LoaderCheck
    \/ LoaderDecoded
    \/ LoaderDecodeFails
    \/ LoaderPut

SpecCrash == InitCrash /\ [][NextCrash]_vars

\* The asset whose decode hook raised.
Failed == lpc = "crashed"

(***************************************************************************)
(* C16.  Once an asset's decode hook has raised, the crash queue holds     *)
(* exactly one message and the loader thread has ended for good; nothing   *)
(* is added to the results queue any more, the asset stays loading = true  *)
(* and loaded = false, and none of its callbacks is invoked.               *)
(***************************************************************************)
C16_DecodeFailureLeavesAssetLoading ==
    /\ [](Failed =>
             /\ Len(crash_queue) = 1
             /\ loading[held]
             /\ ~loaded[held])
    /\ [][Failed =>
             /\ lpc' = lpc
             /\ crash_queue' = crash_queue
             /\ decodeCount' = decodeCount
             /\ Len(loaded_queue') <= Len(loaded_queue)
             /\ (MainStep /\ called' # called =>
                    \A c \in called' : c[1] # held)]_vars

(***************************************************************************)
(* AssetGroup.load on the main thread, with the loading pipeline.          *)
(***************************************************************************)
\* sum([x[1] for x in assets])
RECURSIVE SumWeights(_)
SumWeights(ms) ==
    IF ms = <<>> THEN 0 ELSE Head(ms).weight + SumWeights(Tail(ms))

\* [asset] * weight
RECURSIVE Repeat(_, _)
Repeat(a, n) == IF n = 0 THEN <<>> ELSE <<a>> \o Repeat(a, n - 1)

\* _configure_return_asset: the deque extended member by member.
RECURSIVE Extended(_)
Extended(ms) ==
    IF ms = <<>> THEN <<>>
    ELSE Repeat(Head(ms).asset, Head(ms).weight) \o Extended(Tail(ms))

\* deque.rotate(1)
RotateRight(q) ==
    IF q = <<>> THEN q ELSE <<q[Len(q)]>> \o SubSeq(q, 1, Len(q) - 1)

\* The member lists of the groups that are loaded.
GroupConfigs == {<<Member("a1", 1), Member("a2", 2)>>, <<Member("a2", 1)>>}

RECURSIVE UnloadedMembers(_)
UnloadedMembers(ms) ==
    IF ms = <<>> THEN 0
    ELSE (IF loaded[Head(ms).asset] THEN 0 ELSE 1) + UnloadedMembers(Tail(ms))

AllMembersLoaded == \A i \in 1..Len(g_assets) : loaded[g_assets[i].asset]

\* AssetGroup.load(callback = cb): self._callbacks.add(callback).
GroupLoadBegin(cb) ==
    /\ mainpc = "idle"
    /\ num_assets_to_load + UnloadedMembers(g_assets) <= MaxPending
    /\ g_callbacks' = g_callbacks \cup {cb}
    /\ todo' = g_assets
    /\ mainpc' = "group_load"
    /\ lastOp' = [name |-> "group_load", asset |-> None, cb |-> cb]
    /\ called' = {}
    /\ posted' = <<>>
    /\ polled' = <<>>
    /\ unloadCalls' = <<>>
    /\ NoBootRelease
    /\ UNCHANGED <<assetVars, counterVars, bcpVars, loader_queue, loaded_queue,
                   loaded_watcher, loaderVars, pollBase, decodeCount,
                   loading_members, mainRest>>

\* AssetGroup.load: one pass of `for asset in self.assets:`; a member that
\* is not loaded is added to loading_members as the (asset, weight) tuple
\* and loaded with the group's bound method as its callback.
GroupLoadMember ==
    /\ mainpc = "group_load"
    /\ todo # <<>>
    /\ todo' = Tail(todo)
    /\ IF loaded[Head(todo).asset]
       THEN UNCHANGED <<called, callbacks, loading, num_assets_to_load,
                        loader_queue, loaded_watcher, loading_members>>
       ELSE /\ loading_members' = loading_members \cup {Head(todo)}
            /\ LoadEnqueues(MaxPending, priority, Head(todo).asset, GroupMethod,
                            called)
    /\ NoBootRelease
    /\ UNCHANGED <<priority, loaded, unloading, num_assets_loaded, bcpVars,
                   loaded_queue, loaderVars, mainpc, lastOp, posted, polled,
                   pollBase, decodeCount, unloadCalls, g_callbacks, mainRest>>

\* AssetGroup.load: `if not self.loading_members: self._call_callbacks()`.
GroupLoadEnd ==
    /\ mainpc = "group_load"
    /\ todo = <<>>
    /\ IF loading_members = {}
       THEN /\ called' = called \cup GroupCallbackCalls
            /\ g_callbacks' = {}
       ELSE UNCHANGED <<called, g_callbacks>>
    /\ mainpc' = "idle"
    /\ UNCHANGED <<assetVars, counterVars, bcpVars, loader_queue, loaded_queue,
                   loaded_watcher, loaderVars, lastOp, posted, polled,
                   pollBase, decodeCount, extVars, loading_members, mainRest>>

GroupPriorities == <<5, 1>>

\* AssetGroup.__init__ with _configure_return_asset, for a group of type
\* 'sequence'.
InitGroup ==
    /\ priority = [a \in Assets |-> GroupPriorities[AssetId(a)]]
    /\ InitPipeline
    /\ InitRegistry
    /\ InitUnwatched
    /\ InitNoServer
    /\ InitBooted
    /\ g_assets \in GroupConfigs
    /\ g_type = "sequence"
    /\ total_weights = SumWeights(g_assets)
    /\ asset_sequence = RotateRight(Extended(g_assets))
    /\ last_asset = NoMember
    /\ assets_sent = {}
    /\ reads = 0
    /\ draw = 0
    /\ returned = None
    /\ recent = <<>>

NextGroup ==
    \/ \E cb \in CallbackArgs : GroupLoadBegin(cb)
    \/ GroupLoadMember
    \/ GroupLoadEnd
    \/ \E a \in Assets : Load(a, None, NoPriority)
    \/ PollIter
    \/ PollFinish
    \/ LoaderGet
    \/ LoaderGetTimeout
    \/ LoaderTestRun
    \/ LoaderCheck
    \/ LoaderDecoded
    \/ LoaderPut

SpecGroup == InitGroup /\ [][NextGroup]_vars

\* A group load with a callable callback is waiting for its members.
GroupCallbackPending == "cb1" \in g_callbacks

(***************************************************************************)
(* C17.  While a group load with a callback is waiting, the poll step that *)
(* marks the last member loaded invokes the group's callback, and no step  *)
(* invokes it while a member is not loaded.                                *)
(***************************************************************************)
C17_GroupCallbackAtLastMember ==
    [][/\ (PollIterStep /\ GroupCallbackPending
              /\ ~AllMembersLoaded /\ AllMembersLoaded')
          => <<"group", "cb1">> \in called'
       /\ (MainStep /\ <<"group", "cb1">> \in called'
              /\ <<"group", "cb1">> \notin called)
          => AllMembersLoaded']_vars

\* Steps of a running AssetGroup.load, and its return.
GroupLoadStep == MainStep /\ mainpc = "group_load"
GroupLoadReturns == GroupLoadStep /\ mainpc' = "idle"

(***************************************************************************)
(* C18.  A group load that runs while every member is loaded enqueues      *)
(* nothing and has invoked the callback it was given when it returns.      *)
(***************************************************************************)
C18_GroupLoadWhenAllLoaded ==
    [][(GroupLoadStep /\ AllMembersLoaded) =>
          /\ loader_queue' = loader_queue
          /\ num_assets_to_load' = num_assets_to_load
          /\ (GroupLoadReturns /\ lastOp.cb = "cb1")
                => <<"group", "cb1">> \in called']_vars

(***************************************************************************)
(* The selection accessor AssetGroup.asset.                                *)
(***************************************************************************)
MaxReads == 7
MaxWeight == 2

MemberOrder == <<"a1", "a2", "a3">>
GroupTypes == {"random", "sequence", "random_force_next", "random_force_all"}

\* The member lists: the first n assets, each with a weight.
MemberLists ==
    UNION {{[i \in 1..n |-> Member(MemberOrder[i], w[i])] :
               w \in [1..n -> 1..MaxWeight]} : n \in 1..Len(MemberOrder)}

\* deque.rotate(-1).  The first variant leaves the deque as it is.
NoRotate(q) == q
RotateLeft(q) == IF q = <<>> THEN q ELSE Tail(q) \o <<Head(q)>>

\* The members of ms that pass the filter `x is not self._last_asset`
\* / `x not in self._assets_sent`.
RECURSIVE Without(_, _)
Without(ms, out) ==
    IF ms = <<>> THEN <<>>
    ELSE IF Head(ms) \in out THEN Without(Tail(ms), out)
         ELSE <<Head(ms)>> \o Without(Tail(ms), out)

\* _pick_weighed_random: the loop from member i on with the running
\* index_value, and the fallback assets[-1].
RECURSIVE PickWalk(_, _, _, _)
PickWalk(ms, i, index_value, value) ==
    IF i > Len(ms) THEN ms[Len(ms)]
    ELSE IF index_value >= value THEN ms[i]
         ELSE PickWalk(ms, i + 1, index_value + ms[i].weight, value)

_pick_weighed_random(ms, value) == PickWalk(ms, 1, ms[1].weight, value)

\* _get_random_force_next_asset: self._total_weights = sum([x[1] for x in
\* self.assets if x is not self._last_asset]).  The first variant sums over
\* every member.
TotalOfAllMembers(ms, last) == SumWeights(ms)
TotalWithoutLast(ms, last) == SumWeights(Without(ms, {last}))

\* _get_random_force_all_asset: self._assets_sent.add(asset).  The first
\* variant forgets the member.
SentNotAdded(sent, m) == sent
SentAdded(sent, m) == sent \cup {m}

\* _get_random_force_next_asset: [x for x in self.assets if x is not
\* self._last_asset].  The first variant leaves the last pick in.
CandidatesWithLast(ms, last) == ms
CandidatesWithoutLast(ms, last) == Without(ms, {last})

\* _get_random_force_all_asset: `if len(self._assets_sent) ==
\* len(self.assets): self._assets_sent = set()`.  The first variant resets
\* the set at every read.
SentAlwaysReset(sent, n) == {}
SentAtRead(sent, n) == IF Cardinality(sent) = n THEN {} ELSE sent

\* The reads that are remembered: the last WindowLen of them.
WindowLen == 3
LastReads(q) == IF Len(q) <= WindowLen THEN q
                ELSE SubSeq(q, Len(q) - WindowLen + 1, Len(q))

\* A read of AssetGroup.asset, for the configured type.
GroupRead ==
    /\ mainpc = "idle"
    /\ reads < MaxReads
    /\ reads' = reads + 1
    /\ CASE g_type = "random" ->
              /\ IF total_weights = 0
                 THEN \* random.randint(1, 0) raises ValueError
                      /\ returned' = "ValueError"
                      /\ UNCHANGED draw
                 ELSE \E value \in 1..total_weights :
                         /\ draw' = value
                         /\ returned' =
                                _pick_weighed_random(g_assets, value).asset
              /\ UNCHANGED <<total_weights, asset_sequence, last_asset,
                             assets_sent>>
         [] g_type = "sequence" ->
              /\ asset_sequence' = RotateLeft(asset_sequence)
              /\ returned' = IF asset_sequence' = <<>>
                             THEN "IndexError"  \* deque index out of range
                             ELSE asset_sequence'[1]
              /\ UNCHANGED <<total_weights, last_asset, assets_sent, draw>>
         [] g_type = "random_force_next" ->
              LET rest == CandidatesWithoutLast(g_assets, last_asset)
              IN /\ total_weights' = TotalWithoutLast(g_assets, last_asset)
                 /\ IF rest = <<>>
                    THEN \* random.randint(1, 0) raises ValueError
                         /\ returned' = "ValueError"
                         /\ UNCHANGED <<last_asset, draw>>
                    ELSE \E value \in 1..total_weights' :
                            /\ draw' = value
                            /\ last_asset' = _pick_weighed_random(rest, value)
                            /\ returned' = last_asset'.asset
                 /\ UNCHANGED <<asset_sequence, assets_sent>>
         [] g_type = "random_force_all" ->
              LET sent == SentAtRead(assets_sent, Len(g_assets))
                  rest == Without(g_assets, sent)
              IN /\ IF total_weights = 0
                    THEN \* random.randint(1, 0) raises ValueError
                         /\ returned' = "ValueError"
                         /\ assets_sent' = sent
                         /\ UNCHANGED draw
                    ELSE \E value \in 1..total_weights :
                            /\ draw' = value
                            /\ assets_sent' =
                                   SentAdded(sent,
                                             _pick_weighed_random(rest, value))
                            /\ returned' =
                                   _pick_weighed_random(rest, value).asset
                 /\ UNCHANGED <<total_weights, asset_sequence, last_asset>>
    /\ recent' = LastReads(Append(recent, returned'))
    /\ lastOp' = [name |-> "read", asset |-> None, cb |-> None]
    /\ called' = {}
    /\ posted' = <<>>
    /\ polled' = <<>>
    /\ unloadCalls' = <<>>
    /\ NoBootRelease
    /\ UNCHANGED <<assetVars, counterVars, bcpVars, loader_queue, loaded_queue,
                   loaded_watcher, loaderVars, mainpc, pollBase, decodeCount,
                   todo, run, stopLog, crash_queue, g_assets, g_type, grpVars,
                   regVars, hookVars, srvVars>>

SelectPriorities == <<5, 1>>

\* AssetGroup.__init__ with _configure_return_asset.
InitSelect ==
    /\ priority = [a \in Assets |-> SelectPriorities[AssetId(a)]]
    /\ InitPipeline
    /\ InitRegistry
    /\ InitUnwatched
    /\ InitNoServer
    /\ InitBooted
    /\ g_assets \in MemberLists
    /\ g_type \in GroupTypes
    /\ total_weights = SumWeights(g_assets)
    /\ asset_sequence = IF g_type = "sequence"
                        THEN RotateRight(Extended(g_assets)) ELSE <<>>
    /\ last_asset = NoMember
    /\ assets_sent = {}
    /\ reads = 0
    /\ draw = 0
    /\ returned = None
    /\ recent = <<>>

NextSelect == GroupRead

SpecSelect == InitSelect /\ [][NextSelect]_vars

\* The member whose cumulative weight bracket contains v:
\* w_1 + .. + w_(i-1) < v <= w_1 + .. + w_i.
BracketIndex(ms, v) ==
    CHOOSE i \in 1..Len(ms) :
        /\ SumWeights(SubSeq(ms, 1, i - 1)) < v
        /\ v <= SumWeights(SubSeq(ms, 1, i))

(***************************************************************************)
(* C19.  A read of a 'random' group with draw value v returns the member   *)
(* whose cumulative weight bracket contains v.                             *)
(***************************************************************************)
C19_RandomPicksBracketMember ==
    (g_type = "random" /\ reads > 0) =>
        returned = g_assets[BracketIndex(g_assets, draw)].asset

(***************************************************************************)
(* C20.  The buffer of a 'sequence' group always holds W entries, each     *)
(* member repeated weight times in member order (rotated by the reads made *)
(* so far), and the k-th read returns element (k - 1) mod W of that        *)
(* expansion.                                                              *)
(***************************************************************************)
C20_SequenceCyclesThroughExpansion ==
    g_type = "sequence" =>
        LET W == SumWeights(g_assets)
            ExpansionAt(j) == g_assets[BracketIndex(g_assets, j + 1)].asset
            first == (reads + W - 1) % W
        IN /\ Len(asset_sequence) = W
           /\ \A j \in 0..(W - 1) :
                 asset_sequence[j + 1] = ExpansionAt((first + j) % W)
           /\ reads >= 1 => returned = ExpansionAt((reads - 1) % W)

\* The group [(a1, 2), (a2, 1)] has been read four times: a1, a1, a2, a1.
C20_Witness ==
    /\ g_type = "sequence"
    /\ g_assets = <<Member("a1", 2), Member("a2", 1)>>
    /\ reads = 4
    /\ returned = "a1"
    /\ asset_sequence = <<"a1", "a1", "a2">>

\* A read of the accessor, as a step.
ReadStep == reads' = reads + 1

MemberAssets == {g_assets[i].asset : i \in 1..Len(g_assets)}
WeightOf(a) == (CHOOSE m \in Range(g_assets) : m.asset = a).weight

(***************************************************************************)
(* C21.  A read of a 'random_force_next' group with at least two members   *)
(* returns a member other than the one the read before it returned.        *)
(***************************************************************************)
C21_ForceNextNeverRepeats ==
    [][(ReadStep /\ g_type = "random_force_next" /\ Len(g_assets) >= 2) =>
          /\ returned' \in MemberAssets
          /\ returned' # returned]_vars

\* Three members, the last read came back to a1 after other members.
C21_Witness ==
    /\ g_type = "random_force_next"
    /\ Len(g_assets) = 3
    /\ reads = MaxReads
    /\ recent = <<"a1", "a3", "a1">>

(***************************************************************************)
(* C22.  The reads of a 'random_force_all' group of n members come in      *)
(* cycles of n starting at the first read: a read returns a member not yet *)
(* returned in its cycle, the already-returned set is the set of members   *)
(* returned in the current cycle, and it is reset by the first read of the *)
(* next cycle.                                                             *)
(***************************************************************************)
C22_ForceAllCycles ==
    [][(ReadStep /\ g_type = "random_force_all") =>
          LET n == Len(g_assets)
              inCycle == IF reads % n = 0 THEN {} ELSE assets_sent
          IN /\ Cardinality(inCycle) = reads % n
             /\ returned' \in MemberAssets
             /\ returned' \notin {m.asset : m \in inCycle}
             /\ assets_sent' =
                   inCycle \cup {m \in Range(g_assets) : m.asset = returned'}
       ]_vars

\* The first read of the second cycle of three members has reset the set.
C22_Witness ==
    /\ g_type = "random_force_all"
    /\ Len(g_assets) = 3
    /\ reads = 4
    /\ {m.asset : m \in assets_sent} = {returned}

(***************************************************************************)
(* C23.  As claimed: after three or more reads of a 'random_force_all'     *)
(* group of 3 members, the last three reads returned 3 distinct members.   *)
(***************************************************************************)
C23_AnyWindowHasAllMembers ==
    (g_type = "random_force_all" /\ Len(g_assets) = 3 /\ reads >= 3) =>
        Cardinality(Range(recent)) = 3

(***************************************************************************)
(* C23, amended.  The three reads of a complete cycle (reads 3k+1 to 3k+3) *)
(* of a 'random_force_all' group of 3 members returned 3 distinct members. *)
(***************************************************************************)
C23_CycleWindowHasAllMembers ==
    (g_type = "random_force_all" /\ Len(g_assets) = 3 /\ reads >= 3
        /\ reads % 3 = 0) =>
        Cardinality(Range(recent)) = 3

\* Two cycles are complete; the second one returned a2, a3, a1.
C23_Witness ==
    /\ g_type = "random_force_all"
    /\ Len(g_assets) = 3
    /\ reads = 6
    /\ recent = <<"a2", "a3", "a1">>
    /\ Cardinality(assets_sent) = 3

(***************************************************************************)
(* C24.  As claimed: _total_weights is the sum of the weights of all       *)
(* members.                                                                *)
(***************************************************************************)
C24_TotalIsSumOfAllWeights ==
    total_weights = SumWeights(g_assets)

(***************************************************************************)
(* C24, amended.  For 'random', 'sequence' and 'random_force_all' groups   *)
(* _total_weights is the sum of all member weights; for a                  *)
(* 'random_force_next' group with at least two members it is that sum less *)
(* the weight of the member returned by the read before the last one (the  *)
(* full sum until two reads have been made).                               *)
(***************************************************************************)
C24_TotalExcludesPreviousPick ==
    /\ g_type # "random_force_next" => total_weights = SumWeights(g_assets)
    /\ (g_type = "random_force_next" /\ Len(g_assets) >= 2) =>
          total_weights =
              SumWeights(g_assets)
                  - (IF reads <= 1 THEN 0
                     ELSE WeightOf(recent[Len(recent) - 1]))

\* [(a1, 1), (a2, 2), (a3, 2)] read a2 and then a1: the total 5 has
\* become 3.
C24_Witness ==
    /\ g_type = "random_force_next"
    /\ g_assets = <<Member("a1", 1), Member("a2", 2), Member("a3", 2)>>
    /\ reads = 2
    /\ recent = <<"a2", "a1">>
    /\ total_weights = 3

(***************************************************************************)
(* Priority override: load(priority = p) while the loader queue holds      *)
(* entries                                                                 *)
(***************************************************************************)
\* Load() with a priority argument is not offered once num_assets_to_load
\* has reached this value: two queued entries and the overriding load.
MaxOverridePending == 3

\* The priority argument of Asset.load: left out, or an integer.
OverridePriorities == {NoPriority, PriorityArg(1), PriorityArg(9)}

InitPriority ==
    /\ \E c \in PriorityConfigs :
           priority = [a \in Assets |-> c[AssetId(a)]]
    /\ InitPipeline
    /\ InitRegistry
    /\ InitUnwatched
    /\ InitNoServer
    /\ InitBooted
    /\ InitNoGroup

NextPriority ==
    \/ \E a \in Assets, p \in OverridePriorities :
           LoadCapped(MaxOverridePending, a, None, p)
    \/ PollIter
    \/ PollFinish
    \/ LoaderGet
    \/ LoaderGetTimeout
    \/ LoaderTestRun
    \/ LoaderCheck
    \/ LoaderDecoded
    \/ LoaderPut

SpecPriority == InitPriority /\ [][NextPriority]_vars

\* The order in which loader_queue.get() hands out the entries of the heap
\* h when the assets' priorities are pr and nothing else is put.
RECURSIVE Drain(_, _)
Drain(pr, h) ==
    IF h = <<>> THEN <<>>
    ELSE <<HeapPopItem(h)>> \o Drain(pr, HeapPopRest(pr, h))

RemoveAt(s, i) == SubSeq(s, 1, i - 1) \o SubSeq(s, i + 1, Len(s))

\* load() of the asset a changes the priority of a while the loader queue
\* holds an entry of a.
OverrideOnQueued(a) ==
    /\ LoadStep(a)
    /\ a \in Range(loader_queue)
    /\ priority'[a] # priority[a]

(***************************************************************************)
(* C25.  When load(priority = p) on an asset that has an entry in the      *)
(* loader queue changes the asset's priority, the entries that were in the *)
(* queue are still dequeued in the order they would have been dequeued in  *)
(* before the call: the new dequeue order is the old one with at most the  *)
(* one new entry of the asset put in somewhere.                            *)
(***************************************************************************)
C25_QueuedOrderKept ==
    [][\A a \in Assets :
          OverrideOnQueued(a) =>
              LET old == Drain(priority, loader_queue)
                  new == Drain(priority', loader_queue')
              IN IF Len(new) = Len(old)
                 THEN new = old
                 ELSE \E i \in 1..Len(new) :
                          new[i] = a /\ RemoveAt(new, i) = old]_vars

(***************************************************************************)
(* Callbacks: callables, None and values that are not callable             *)
(***************************************************************************)
\* A value handed to load(callback=...) that is neither None nor callable.
NonCallables == {"not_callable"}
CallbackInputs == CallbackArgs \cup NonCallables

NextCallbacks ==
    \/ \E a \in Assets, cb \in CallbackInputs : Load(a, cb, NoPriority)
    \/ \E a \in Assets : UnloadBegin(a)
    \/ UnloadEnd
    \/ PollIter
    \/ PollFinish
    \/ LoaderGet
    \/ LoaderGetTimeout
    \/ LoaderTestRun
    \/ LoaderCheck
    \/ LoaderDecoded
    \/ LoaderPut

SpecCallbacks == Init /\ [][NextCallbacks]_vars

\* The calls made by the handlers of the running main-thread step before
\* this step.
CalledBefore == IF mainpc = "idle" THEN {} ELSE called

(***************************************************************************)
(* C26.  load() on an asset that is not loaded accepts any callback value  *)
(* (callable, None or not callable), adds it to the asset's callback set   *)
(* and calls nothing.  When the poll marks an asset loaded it calls every  *)
(* callable in the asset's callback set once, and the set is empty         *)
(* afterwards; a loaded asset has an empty callback set, so the completion *)
(* of a duplicate queue entry of an asset that is still loaded calls       *)
(* nothing.  None and non-callable values are never called.                *)
(***************************************************************************)
C26_CallbacksOnceWhenLoaded ==
    /\ [](\A a \in Assets : loaded[a] => callbacks[a] = {})
    /\ [](\A c \in called : c[2] \in Callables)
    /\ [][\A a \in Assets :
             (LoadStep(a) /\ ~loaded[a]) =>
                 /\ callbacks'[a] = callbacks[a] \cup {lastOp'.cb}
                 /\ called' = {}]_vars
    /\ [][PollIterStep =>
             LET x == Head(loaded_queue)
             IN /\ called' = CalledBefore
                                \cup {<<x, c>> : c \in callbacks[x] \cap Callables}
                /\ callbacks'[x] = {}
                /\ loaded'[x]
                /\ loaded[x] => called' = CalledBefore]_vars

\* a1 was requested twice, with cb1 among the callbacks; the poll has marked
\* it loaded on the first completion and called cb1, and the duplicate entry
\* of a1 is still on its way.
C26_Witness ==
    /\ lastOp.name = "poll"
    /\ polled = <<"a1">>
    /\ loaded["a1"]
    /\ called = {<<"a1", "cb1">>}
    /\ callbacks["a1"] = {}
    /\ num_assets_to_load = 2
    /\ num_assets_loaded = 1

(***************************************************************************)
(* load_assets_by_load_key                                                 *)
(***************************************************************************)
\* config['load'] of the assets of a mode, and the key names asked for
\* ('game_start' is the key of no asset).
ModeLoadKeys == {"on_demand", "attract_start"}
KeyNames == {"attract_start", "game_start"}

\* The ways the two assets are spread over the classes 'images' and
\* 'sounds' (values() of mc.images and of mc.sounds).
AssetDicts ==
    { [images |-> <<"a1", "a2">>, sounds |-> <<>>],
      [images |-> <<"a1">>, sounds |-> <<"a2">>],
      [images |-> <<>>, sounds |-> <<"a1", "a2">>] }

\* `x.config['load'] == key_name`.  The first variant takes every asset.
MatchesAnyKey(a, key_name) == TRUE
MatchesKey(a, key_name) == load_key[a] = key_name

\* [x for x in asset_objects if x.config['load'] == key_name]
RECURSIVE AssetsWithKey(_, _)
AssetsWithKey(asset_objects, key_name) ==
    IF asset_objects = <<>> THEN <<>>
    ELSE IF MatchesKey(Head(asset_objects), key_name)
         THEN <<Head(asset_objects)>>
                  \o AssetsWithKey(Tail(asset_objects), key_name)
         ELSE AssetsWithKey(Tail(asset_objects), key_name)

\* `for ac in self._asset_classes`: the assets the loop calls load() on, in
\* the order of the calls.
RECURSIVE AssetsToLoad(_, _)
AssetsToLoad(classes, key_name) ==
    IF classes = <<>> THEN <<>>
    ELSE AssetsWithKey(asset_dicts[Head(classes).attribute], key_name)
             \o AssetsToLoad(Tail(classes), key_name)

Unloaded(assets) == Cardinality({i \in 1..Len(assets) : ~loaded[assets[i]]})

\* load_assets_by_load_key(key_name, priority=p) is entered:
\* `assets = set()`.
LoadByKeyBegin(key_name, p) ==
    /\ mainpc = "idle"
    /\ num_assets_to_load
           + Unloaded(AssetsToLoad(asset_classes, key_name)) <= MaxPending
    /\ todo' = AssetsToLoad(asset_classes, key_name)
    /\ key_assets' = {}
    /\ loadCalls' = <<>>
    /\ mainpc' = "load_key"
    /\ lastOp' = [name |-> "load_by_key", asset |-> None, cb |-> None,
                  key |-> key_name, priority |-> p]
    /\ called' = {}
    /\ posted' = <<>>
    /\ polled' = <<>>
    /\ unloadCalls' = <<>>
    /\ clearedNow' = FALSE
    /\ UNCHANGED <<assetVars, counterVars, bcpVars, loader_queue, loaded_queue,
                   loaded_watcher, loaderVars, pollBase, decodeCount,
                   bootVars, run, stopLog, crash_queue, selVars, grpVars,
                   asset_classes, mc_attributes, asset_dicts, hookVars, srvVars>>

\* One pass of the inner loop: asset.load(); assets.add(asset).
LoadByKeyLoad ==
    /\ mainpc = "load_key"
    /\ todo # <<>>
    /\ AssetLoad(MaxPending, Head(todo), None, NoPriority, called)
    /\ loadCalls' = Append(loadCalls, Head(todo))
    /\ key_assets' = key_assets \cup {Head(todo)}
    /\ todo' = Tail(todo)
    /\ NoBootRelease
    /\ UNCHANGED <<loaded, unloading, num_assets_loaded, bcpVars, loaded_queue,
                   loaderVars, mainpc, lastOp, posted, polled, pollBase,
                   decodeCount, unloadCalls, run, stopLog, crash_queue,
                   selVars, asset_classes, mc_attributes, asset_dicts,
                   hookVars, srvVars>>

\* `return assets`
LoadByKeyReturn ==
    /\ mainpc = "load_key"
    /\ todo = <<>>
    /\ mainpc' = "idle"
    /\ UNCHANGED <<assetVars, counterVars, bcpVars, loader_queue, loaded_queue,
                   loaded_watcher, loaderVars, lastOp, outVars, decodeCount,
                   extVars, mainRest, grpVars>>

LoadKeyPriorities == <<5, 1>>

\* Two asset classes are registered, the assets have been created with
\* their load keys, nothing was set to preload and the boot is over.
InitLoadKey ==
    /\ priority = [a \in Assets |-> LoadKeyPriorities[AssetId(a)]]
    /\ InitPipeline
    /\ InitNoGroup
    /\ load_key \in [Assets -> ModeLoadKeys]
    /\ created = TRUE
    /\ init_done = TRUE
    /\ boot_released = TRUE
    /\ asset_classes = <<[attribute |-> "images", priority |-> 100],
                         [attribute |-> "sounds", priority |-> 50]>>
    /\ mc_attributes = {"events", "images", "sounds"}
    /\ asset_dicts \in AssetDicts
    /\ loadCalls = <<>>
    /\ key_assets = {}
    /\ InitUnwatched
    /\ InitNoServer

NextLoadKey ==
    \/ \E key_name \in KeyNames : LoadByKeyBegin(key_name, 0)
    \/ LoadByKeyLoad
    \/ LoadByKeyReturn
    \/ \E a \in Assets : UnloadBegin(a)
    \/ UnloadEnd
    \/ PollIter
    \/ PollFinish
    \/ LoaderGet
    \/ LoaderGetTimeout
    \/ LoaderTestRun
    \/ LoaderCheck
    \/ LoaderDecoded
    \/ LoaderPut

SpecLoadKey == InitLoadKey /\ [][NextLoadKey]_vars

LoadByKeyReturnStep ==
    /\ MainStep
    /\ mainpc = "load_key"
    /\ mainpc' = "idle"

\* The assets in the dictionaries of the registered asset classes.
RegisteredAssets ==
    UNION {Range(asset_dicts[asset_classes[i].attribute]) :
               i \in 1..Len(asset_classes)}

(***************************************************************************)
(* C27.  When load_assets_by_load_key(key) returns, load() has been called *)
(* once on every asset of every registered asset class whose               *)
(* config['load'] equals key and on no other asset, and the set returned   *)
(* is the set of those assets.                                             *)
(***************************************************************************)
C27_LoadsExactlyTheKeyedAssets ==
    [][LoadByKeyReturnStep =>
          LET keyed == {a \in RegisteredAssets : load_key[a] = lastOp.key}
          IN /\ key_assets = keyed
             /\ Range(loadCalls) = keyed
             /\ Len(loadCalls) = Cardinality(keyed)]_vars

\* load_assets_by_load_key('attract_start') has returned {a2}: a2, a sound,
\* has the key and was queued; a1, an image, is loaded on demand and was
\* left alone.
C27_Witness ==
    /\ lastOp.name = "load_by_key"
    /\ mainpc = "idle"
    /\ lastOp.key = "attract_start"
    /\ key_assets = {"a2"}
    /\ loadCalls = <<"a2">>
    /\ asset_dicts["images"] = <<"a1">>
    /\ asset_dicts["sounds"] = <<"a2">>
    /\ loading["a2"]
    /\ ~loading["a1"]

(***************************************************************************)
(* register_asset_class                                                    *)
(***************************************************************************)
\* Attributes the controller has before any asset class is registered.
ControllerAttributes == {"events"}
RegisterAttributes == AssetAttributes \cup ControllerAttributes
ClassPriorities == {50, 100}

\* hasattr(self.mc, attribute).  The first variant never finds the
\* attribute.
AttributeNeverExists(attribute) == FALSE
AttributeExists(attribute) == attribute \in mc_attributes

\* list.sort(key=lambda x: x['priority'], reverse=True): a stable sort,
\* highest priority first, entries of equal priority in their old order.
RECURSIVE InsertByPriority(_, _)
InsertByPriority(sorted, ac) ==
    IF sorted = <<>> THEN <<ac>>
    ELSE IF Head(sorted).priority >= ac.priority
         THEN <<Head(sorted)>> \o InsertByPriority(Tail(sorted), ac)
         ELSE <<ac>> \o sorted

RECURSIVE SortByPriority(_)
SortByPriority(classes) ==
    IF classes = <<>> THEN <<>>
    ELSE InsertByPriority(
             SortByPriority(SubSeq(classes, 1, Len(classes) - 1)),
             classes[Len(classes)])

\* register_asset_class(asset_class, attribute, ..., priority, ...)
RegisterAssetClass(attribute, class_priority) ==
    /\ mainpc = "idle"
    /\ ~created
    /\ IF AttributeExists(attribute)
       THEN /\ lastOp' = [name |-> "register", asset |-> None, cb |-> None,
                          attribute |-> attribute,
                          priority |-> class_priority,
                          error |-> "ValueError"]
            /\ UNCHANGED <<asset_classes, mc_attributes, asset_dicts>>
       ELSE /\ mc_attributes' = mc_attributes \cup {attribute}
            /\ asset_dicts' = [asset_dicts EXCEPT ![attribute] = <<>>]
            /\ asset_classes' =
                   SortByPriority(Append(asset_classes,
                                         [attribute |-> attribute,
                                          priority |-> class_priority]))
            /\ lastOp' = [name |-> "register", asset |-> None, cb |-> None,
                          attribute |-> attribute,
                          priority |-> class_priority,
                          error |-> None]
    /\ called' = {}
    /\ posted' = <<>>
    /\ polled' = <<>>
    /\ unloadCalls' = <<>>
    /\ clearedNow' = FALSE
    /\ UNCHANGED <<assetVars, counterVars, bcpVars, loader_queue, loaded_queue,
                   loaded_watcher, loaderVars, mainpc, pollBase, decodeCount,
                   bootVars, todo, run, stopLog, crash_queue, selVars, grpVars,
                   loadCalls, key_assets, hookVars, srvVars>>

RegisterPriorities == <<5, 1>>

\* The asset manager has been constructed; no asset class is registered and
\* no asset has been created yet.
InitRegister ==
    /\ priority = [a \in Assets |-> RegisterPriorities[AssetId(a)]]
    /\ InitPipeline
    /\ InitNoGroup
    /\ load_key = [a \in Assets |-> "on_demand"]
    /\ created = FALSE
    /\ init_done = FALSE
    /\ boot_released = FALSE
    /\ asset_classes = <<>>
    /\ mc_attributes = ControllerAttributes
    /\ asset_dicts = [at \in AssetAttributes |-> <<>>]
    /\ loadCalls = <<>>
    /\ key_assets = {}
    /\ InitUnwatched
    /\ InitNoServer

NextRegister ==
    \E attribute \in RegisterAttributes, class_priority \in ClassPriorities :
        RegisterAssetClass(attribute, class_priority)

SpecRegister == InitRegister /\ [][NextRegister]_vars

RegisterStep ==
    /\ MainStep
    /\ mainpc = "idle"
    /\ lastOp'.name = "register"

(***************************************************************************)
(* C28.  register_asset_class with an attribute name the controller        *)
(* already has raises ValueError and leaves the list of registered asset   *)
(* classes (and the controller's attributes) as they were; otherwise it    *)
(* returns without error, the controller has the attribute, and the list   *)
(* is the old list with exactly one entry, the new class, put in.          *)
(***************************************************************************)
C28_RegisterOnceOrFail ==
    [][RegisterStep =>
          IF lastOp'.attribute \in mc_attributes
          THEN /\ lastOp'.error = "ValueError"
               /\ asset_classes' = asset_classes
               /\ mc_attributes' = mc_attributes
          ELSE /\ lastOp'.error = None
               /\ lastOp'.attribute \in mc_attributes'
               /\ Len(asset_classes') = Len(asset_classes) + 1
               /\ \E i \in 1..Len(asset_classes') :
                     /\ asset_classes'[i] =
                            [attribute |-> lastOp'.attribute,
                             priority |-> lastOp'.priority]
                     /\ RemoveAt(asset_classes', i) = asset_classes]_vars

\* 'images' and 'sounds' are registered and a second registration of
\* 'images' has just failed.
C28_Witness ==
    /\ lastOp.name = "register"
    /\ lastOp.attribute = "images"
    /\ lastOp.error = "ValueError"
    /\ Len(asset_classes) = 2
    /\ asset_classes[1].attribute = "sounds"
    /\ asset_classes[2].attribute = "images"

(***************************************************************************)
(* AssetGroup.__init__: the configured member list                         *)
(***************************************************************************)
\* Strings are sequences of character codes: 'a' is 97, 'z' is 122, '|' is
\* 124, '0'..'9' are 48..57, '+' is 43 and '-' is 45.
Bar == 124

\* The names the assets are registered under, and a name no asset has.
AssetNames == [a \in Assets |-> IF a = "a1" THEN <<97, 49>> ELSE <<97, 50>>]
UnknownName == <<122, 122>>
ConfigNames == {AssetNames[a] : a \in Assets} \cup {UnknownName}

\* What may follow the name in an entry: nothing, '|', or '|2'.
ConfigSuffixes == {<<>>, <<Bar>>, <<Bar, 50>>}
ConfigEntries == {n \o x : n \in ConfigNames, x \in ConfigSuffixes}

\* The entries of one member list name different assets.
MaxConfigLen == 2

\* The part of an entry before its first '|'.
RECURSIVE BeforeBar(_)
BeforeBar(str) ==
    IF str = <<>> \/ Head(str) = Bar THEN <<>>
    ELSE <<Head(str)>> \o BeforeBar(Tail(str))

\* Util.string_to_list(config[...]): the lists of entries.
ConfigLists ==
    UNION {{c \in [1..n -> ConfigEntries] :
               \A i, j \in 1..n :
                   i # j => BeforeBar(c[i]) # BeforeBar(c[j])} :
           n \in 1..MaxConfigLen}

\* str.split('|')
RECURSIVE Split(_)
Split(str) ==
    IF str = <<>> THEN << <<>> >>
    ELSE IF Head(str) = Bar THEN << <<>> >> \o Split(Tail(str))
    ELSE LET rest == Split(Tail(str))
         IN << <<Head(str)>> \o Head(rest) >> \o Tail(rest)

IsDigits(str) == str # <<>> /\ \A i \in 1..Len(str) : str[i] \in 48..57

RECURSIVE DigitsValue(_)
DigitsValue(str) ==
    IF str = <<>> THEN 0
    ELSE 10 * DigitsValue(SubSeq(str, 1, Len(str) - 1)) + (str[Len(str)] - 48)

\* int(number) succeeds: decimal digits with an optional sign.
IntParses(str) ==
    \/ IsDigits(str)
    \/ str # <<>> /\ Head(str) \in {43, 45} /\ IsDigits(Tail(str))

\* int(number)
IntValue(str) ==
    IF IsDigits(str) THEN DigitsValue(str)
    ELSE IF Head(str) = 45 THEN 0 - DigitsValue(Tail(str))
    ELSE DigitsValue(Tail(str))

\* `name, number = asset.split('|')` with the except ValueError clause: an
\* entry that does not split into two parts, or whose number is not an
\* integer, is taken whole as the name, with the number 1.
ParseEntry(entry) ==
    LET parts == Split(entry)
    IN IF Len(parts) # 2 THEN [name |-> entry, number |-> 1]
       ELSE IF parts[2] = <<>> THEN [name |-> parts[1], number |-> 1]
       ELSE IF IntParses(parts[2])
            THEN [name |-> parts[1], number |-> IntValue(parts[2])]
       ELSE [name |-> entry, number |-> 1]

\* The attribute of the members' asset class (member_cls.attribute).
MemberAttribute == "images"

\* getattr(self.mc, self.member_cls.attribute)[name] does not raise KeyError.
NameRegistered(name) ==
    \E a \in Range(asset_dicts[MemberAttribute]) : AssetNames[a] = name

AssetNamed(name) ==
    CHOOSE a \in Range(asset_dicts[MemberAttribute]) : AssetNames[a] = name

\* The loop of AssetGroup.__init__ over the configured entries.
RECURSIVE GroupMembers(_)
GroupMembers(config) ==
    IF config = <<>> THEN <<>>
    ELSE LET e == ParseEntry(Head(config))
         IN (IF NameRegistered(e.name)
             THEN <<Member(AssetNamed(e.name), e.number)>>
             ELSE <<>>)             \* print("No asset named {}", name)
            \o GroupMembers(Tail(config))

\* AssetGroup(mc, name, config, member_cls) with _configure_return_asset.
GroupConstruct(config, type) ==
    /\ mainpc = "idle"
    /\ lastOp.name = "init"
    /\ g_assets' = GroupMembers(config)
    /\ g_type' = type
    /\ total_weights' = SumWeights(GroupMembers(config))
    /\ asset_sequence' = IF type = "sequence"
                         THEN RotateRight(Extended(GroupMembers(config)))
                         ELSE <<>>
    /\ last_asset' = NoMember
    /\ assets_sent' = {}
    /\ g_callbacks' = {}
    /\ loading_members' = {}
    /\ lastOp' = [name |-> "group_init", asset |-> None, cb |-> None,
                  config |-> config, error |-> None]
    /\ called' = {}
    /\ posted' = <<>>
    /\ polled' = <<>>
    /\ unloadCalls' = <<>>
    /\ clearedNow' = FALSE
    /\ UNCHANGED <<assetVars, counterVars, bcpVars, loader_queue, loaded_queue,
                   loaded_watcher, loaderVars, mainpc, pollBase, decodeCount,
                   bootVars, todo, run, stopLog, crash_queue, reads, draw,
                   returned, recent, regVars, hookVars, srvVars>>

\* A read of the accessor of the group that has been constructed.
ConstructedGroupRead ==
    /\ lastOp.name # "init"
    /\ GroupRead

ConstructPriorities == <<5, 1>>

InitConstruct ==
    /\ priority = [a \in Assets |-> ConstructPriorities[AssetId(a)]]
    /\ InitPipeline
    /\ InitRegistry
    /\ InitUnwatched
    /\ InitNoServer
    /\ InitBooted
    /\ InitNoGroup

NextConstruct ==
    \/ \E config \in ConfigLists, type \in GroupTypes :
           GroupConstruct(config, type)
    \/ ConstructedGroupRead

SpecConstruct == InitConstruct /\ [][NextConstruct]_vars

ConstructStep ==
    /\ MainStep
    /\ lastOp.name = "init"
    /\ lastOp'.name = "group_init"

\* The weight an entry gives: the number after the '|', 1 without one.
ConfiguredWeight(entry) ==
    IF Len(Split(entry)) = 2 /\ Split(entry)[2] # <<>>
    THEN DigitsValue(Split(entry)[2]) ELSE 1

\* The configured list restricted to the registered names, in the
\* configured order, with the configured weights.
RECURSIVE RegisteredOf(_)
RegisteredOf(config) ==
    IF config = <<>> THEN <<>>
    ELSE (IF \E a \in Assets : AssetNames[a] = BeforeBar(Head(config))
          THEN <<Member(CHOOSE a \in Assets :
                            AssetNames[a] = BeforeBar(Head(config)),
                        ConfiguredWeight(Head(config)))>>
          ELSE <<>>)
         \o RegisteredOf(Tail(config))

(***************************************************************************)
(* C29.  Constructing an AssetGroup whose member list names assets that    *)
(* are not registered does not fail, and the group's members are the       *)
(* configured ones restricted to the registered names, in the configured   *)
(* order with their weights (1 where none is given); and every read of the *)
(* accessor of a group so constructed returns one of the members that      *)
(* remain.                                                                 *)
(***************************************************************************)
C29_GroupContinuesWithRemaining ==
    [][/\ ConstructStep =>
             /\ lastOp'.error = None
             /\ g_assets' = RegisteredOf(lastOp'.config)
             /\ total_weights' = SumWeights(g_assets')
       /\ (ReadStep /\ lastOp.name # "init") =>
             returned' \in MemberAssets]_vars

(***************************************************************************)
(* Progress: loads complete when the loader thread and the poll run        *)
(***************************************************************************)
ProgressPriorities == <<5, 1>>

InitProgress ==
    /\ priority = [a \in Assets |-> ProgressPriorities[AssetId(a)]]
    /\ InitPipeline
    /\ InitRegistry
    /\ InitUnwatched
    /\ InitNoServer
    /\ InitBooted
    /\ InitNoGroup

\* No shutdown and no unload; the decode hooks return.
NextProgress ==
    \/ \E a \in Assets, cb \in CallbackArgs : Load(a, cb, NoPriority)
    \/ PollIter
    \/ PollFinish
    \/ LoaderGet
    \/ LoaderGetTimeout
    \/ LoaderTestRun
    \/ LoaderCheck
    \/ LoaderDecoded
    \/ LoaderPut

\* The loader thread keeps running and every decode terminates; the Clock
\* keeps calling _check_loader_status while it is scheduled, and a call
\* that has begun runs to its end.
FairProgress ==
    /\ WF_vars(LoaderGet)
    /\ WF_vars(LoaderGetTimeout)
    /\ WF_vars(LoaderTestRun)
    /\ WF_vars(LoaderCheck)
    /\ WF_vars(LoaderDecoded)
    /\ WF_vars(LoaderPut)
    /\ WF_vars(PollIter)
    /\ WF_vars(PollFinish)

SpecProgress == InitProgress /\ [][NextProgress]_vars /\ FairProgress

\* load() has been called on the asset a, which is not loaded.
LoadRequested(a) == loading[a] /\ ~loaded[a]

\* The asset a has been marked loaded.
MarkedLoaded(a) == loaded[a] /\ ~loading[a] /\ callbacks[a] = {}

(***************************************************************************)
(* C30.  With the loader thread and the poll running, every asset that     *)
(* load() was called on while it was not loaded is eventually marked       *)
(* loaded (loading = false, loaded = true), and every callable registered  *)
(* for it is eventually invoked with it, the asset being loaded then.      *)
(***************************************************************************)
C30_LoadEventuallyCompletes ==
    /\ \A a \in Assets : LoadRequested(a) ~> MarkedLoaded(a)
    /\ \A a \in Assets, cb \in Callables :
           (LoadRequested(a) /\ cb \in callbacks[a])
               ~> (loaded[a] /\ <<a, cb>> \in called)

\* load(cb1) was called on a1 alone; the loader thread has decoded it and
\* the poll has just marked it loaded and called cb1.
C30_Witness ==
    /\ lastOp.name = "poll"
    /\ mainpc = "poll"
    /\ polled = <<"a1">>
    /\ MarkedLoaded("a1")
    /\ called = {<<"a1", "cb1">>}
    /\ decodeCount["a1"] = 1
    /\ num_assets_to_load = 1
    /\ num_assets_loaded = 1

(***************************************************************************)
(* The hooks of one asset: decode on the loader thread, unload on the main *)
(* thread                                                                  *)
(***************************************************************************)
\* The loader thread is inside asset._do_load() of the asset a (it holds
\* a.lock).
InDecodeHook(a) == lpc = "decoding" /\ held = a

\* The main thread is inside a._do_unload(); Asset.unload does not acquire
\* a.lock.
InUnloadHook(a) == mainpc = "unload" /\ lastOp.asset = a

(***************************************************************************)
(* C31.  The decode hook and the unload hook of the same asset never       *)
(* execute at the same time.                                               *)
(***************************************************************************)
C31_HooksNeverOverlap ==
    \A a \in Assets : ~(InDecodeHook(a) /\ InUnloadHook(a))

(***************************************************************************)
(* Entries in flight: queued, held by the loader thread, or waiting in the *)
(* results queue                                                           *)
(***************************************************************************)
InFlight ==
    Len(loader_queue) + (IF held # None THEN 1 ELSE 0) + Len(loaded_queue)

\* A step of the loader thread.
LoaderStep == lpc' # lpc

(***************************************************************************)
(* C32.  Between manager operations num_assets_to_load - num_assets_loaded *)
(* is the number of entries in the loader queue, plus one if the loader    *)
(* thread holds an entry, plus the number of entries in the results queue; *)
(* no step of the loader thread changes that number, and the loader thread *)
(* adds to the results queue exactly the entry it holds, once, whether it  *)
(* decoded it or skipped the decode.                                       *)
(***************************************************************************)
C32_CountersMatchEntriesInFlight ==
    /\ [](mainpc = "idle" =>
             num_assets_to_load - num_assets_loaded = InFlight)
    /\ [][LoaderStep =>
             /\ InFlight' = InFlight
             /\ IF lpc = "put"
                THEN /\ loaded_queue' = Append(loaded_queue, held)
                     /\ held' = None
                ELSE loaded_queue' = loaded_queue]_vars

\* Two loads of a1 are pending: the first was decoded and is in the results
\* queue, the second was skipped by the loader thread, which is about to
\* put it there too.
C32_Witness ==
    /\ mainpc = "idle"
    /\ lpc = "put"
    /\ held = "a1"
    /\ decodeCount["a1"] = 1
    /\ loaded["a1"]
    /\ loader_queue = <<>>
    /\ loaded_queue = <<>>
    /\ num_assets_to_load = 2
    /\ num_assets_loaded = 1

(***************************************************************************)
(* The loaded flag and the hooks                                           *)
(***************************************************************************)
HookPriorities == <<5, 1>>

\* Both assets are watched.
InitHooks ==
    /\ priority = [a \in Assets |-> HookPriorities[AssetId(a)]]
    /\ InitPipeline
    /\ InitRegistry
    /\ InitWatched
    /\ InitNoServer
    /\ InitBooted
    /\ InitNoGroup

\* load(), unload(), the steps of the loader thread and the poll.
NextHooks ==
    \/ \E a \in Assets : Load(a, None, NoPriority)
    \/ \E a \in Assets : UnloadBegin(a)
    \/ UnloadEnd
    \/ PollIter
    \/ PollFinish
    \/ LoaderGet
    \/ LoaderGetTimeout
    \/ LoaderTestRun
    \/ LoaderCheck
    \/ LoaderDecoded
    \/ LoaderPut

SpecHooks == InitHooks /\ [][NextHooks]_vars

\* C33: whenever an asset's loaded flag is true, the hook of that asset that
\* completed most recently is the decode hook: no asset is marked loaded
\* after its unload hook has run unless a decode of it completed after that
\* unload.
C33_LoadedMeansDecodedLast ==
    \A a \in Assets : loaded[a] => lastHook[a] = "decode"

(***************************************************************************)
(* Mode start: _load_mode_assets                                           *)
(***************************************************************************)
Modes == {"attract", "game"}
ModePriorities == {1, 9}

\* '{}_start'.format(mode.name)
ModeStartKey(mode) == mode \o "_start"

\* _load_mode_assets(config, priority, mode) up to the entry of
\* load_assets_by_load_key(key_name=..., priority=priority).
LoadModeAssets(mode, p) == LoadByKeyBegin(ModeStartKey(mode), p)

ModeAssetPriorities == <<5, 1>>

\* As for load_assets_by_load_key: two asset classes, the assets created
\* with their load keys, the boot over.
InitMode ==
    /\ priority = [a \in Assets |-> ModeAssetPriorities[AssetId(a)]]
    /\ InitPipeline
    /\ InitNoGroup
    /\ InitUnwatched
    /\ InitNoServer
    /\ load_key \in [Assets -> ModeLoadKeys]
    /\ created = TRUE
    /\ init_done = TRUE
    /\ boot_released = TRUE
    /\ asset_classes = <<[attribute |-> "images", priority |-> 100],
                         [attribute |-> "sounds", priority |-> 50]>>
    /\ mc_attributes = {"events", "images", "sounds"}
    /\ asset_dicts \in AssetDicts
    /\ loadCalls = <<>>
    /\ key_assets = {}

NextMode ==
    \/ \E mode \in Modes, p \in ModePriorities : LoadModeAssets(mode, p)
    \/ LoadByKeyLoad
    \/ LoadByKeyReturn
    \/ PollIter
    \/ PollFinish
    \/ LoaderGet
    \/ LoaderGetTimeout
    \/ LoaderTestRun
    \/ LoaderCheck
    \/ LoaderDecoded
    \/ LoaderPut

SpecMode == InitMode /\ [][NextMode]_vars

\* C34: when a mode starts with priority p, every asset that
\* load_assets_by_load_key(key, priority=p) triggers is loaded with priority
\* p: when the call returns, the stored priority of each asset it called
\* load() on, which orders the loader queue, is p.
C34_ModeAssetsLoadWithModePriority ==
    [][LoadByKeyReturnStep =>
          \A a \in key_assets : priority[a] = lastOp.priority]_vars

(***************************************************************************)
(* BCP server: BCPServer.run, BCPServer.sending_loop, BCPServer.stop       *)
(***************************************************************************)
\* Everything of the asset manager but the crash queue, which the BCP
\* server shares with it.
assetSide == <<assetVars, counterVars, bcpVars, loader_queue, loaded_queue,
               loaded_watcher, loaderVars, mainpc, lastOp, outVars,
               decodeCount, extVars, run, stopLog, selVars, regVars, hookVars,
               grpVars>>

MaxConnections == 2
MaxEvents == 5
MaxReceived == 2
MaxQueued == 2
MaxTransmitted == 3
MaxStopCalls == 2

ConnIds == 1..MaxConnections

\* What recv(4096).decode('utf-8').split("\n") yields for the chunks the
\* clients send: the lines of a chunk, empty ones included.
Chunks == {<<"hello">>, <<"hello", "">>, <<"", "">>}

\* `for cmd in commands: if cmd: self.process_received_message(cmd)`
RECURSIVE ReceivedCommands(_)
ReceivedCommands(commands) ==
    IF commands = <<>> THEN <<>>
    ELSE IF Head(commands) # ""
         THEN <<Head(commands)>> \o ReceivedCommands(Tail(commands))
         ELSE ReceivedCommands(Tail(commands))

\* The entries other code puts on the sending queue: tuples (msg, rawbytes),
\* with "" for rawbytes of None.
Messages == {<<"ping", "">>, <<"blob", "xyz">>}

\* The entry stop() puts: the str 'goodbye', an iterable of seven
\* one-character strings.
Goodbye == <<"g", "o", "o", "d", "b", "y", "e">>

\* `msg, rawbytes = <entry>` succeeds on an iterable of exactly two items.
Unpacks(item) == Len(item) = 2

\* What sending_loop hands to connection.sendall for (msg, rawbytes).
Encoded(msg, rawbytes) ==
    IF rawbytes = ""
    THEN <<msg \o "\n">>
    ELSE <<msg \o "&bytes=" \o ToString(Len(rawbytes)) \o "\n", rawbytes>>

\* The `except Exception` handlers of run and sending_loop.
Crash(what) == crash_queue' = Append(crash_queue, <<"traceback", what>>)

\* The server has been constructed and started: the socket listens, the
\* sending thread and the thread of run are at the top of their loops.
InitServerStarted ==
    /\ socket = "listening"
    /\ connection = NoConnection
    /\ done = FALSE
    /\ mc_done = FALSE
    /\ bcp_client_connected = FALSE
    /\ thread_stopper = FALSE
    /\ events = <<>>
    /\ receive_queue = <<>>
    /\ sending_queue = <<>>
    /\ srvpc = "announce"
    /\ sndpc = "loop"
    /\ sndheld = <<>>
    /\ transmitted = <<>>
    /\ stoppc = "idle"
    /\ stopCalls = 0
    /\ peer = [c \in ConnIds |-> "unborn"]
    /\ pending = <<>>
    /\ drained = {}
    /\ exit_on_disconnect \in BOOLEAN
    /\ mc_stops = 0

\* run, top of `while True`: post client_disconnected and clear the flag.
\* getsockname() fails on a socket the sending thread has disposed of.
RunAnnounce ==
    /\ srvpc = "announce"
    /\ Len(events) < MaxEvents
    /\ IF socket = "listening"
       THEN /\ events' = Append(events, "client_disconnected")
            /\ bcp_client_connected' = FALSE
            /\ srvpc' = "accept"
            /\ UNCHANGED crash_queue
       ELSE /\ Crash("getsockname")
            /\ srvpc' = "crashed"
            /\ UNCHANGED <<events, bcp_client_connected>>
    /\ UNCHANGED <<assetSide, exit_on_disconnect, mc_stops,
                   socket, connection, done, mc_done,
                   thread_stopper, receive_queue, sending_queue, sndpc,
                   sndheld, transmitted, stoppc, stopCalls, peer, pending,
                   drained>>

\* `while not self.connection:` with self.connection set: the loop around
\* accept() is not entered.
RunAcceptSkipped ==
    /\ srvpc = "accept"
    /\ connection # NoConnection
    /\ srvpc' = "connected"
    /\ UNCHANGED <<assetSide, exit_on_disconnect, mc_stops,
                   crash_queue, socket, connection, done, mc_done,
                   bcp_client_connected, thread_stopper, events,
                   receive_queue, sending_queue, sndpc, sndheld, transmitted,
                   stoppc, stopCalls, peer, pending, drained>>

\* self.connection, client_address = self.socket.accept() returns.
RunAccepted ==
    /\ srvpc = "accept"
    /\ connection = NoConnection
    /\ socket = "listening"
    /\ pending # <<>>
    /\ connection' = Head(pending)
    /\ pending' = Tail(pending)
    /\ srvpc' = "connected"
    /\ UNCHANGED <<assetSide, exit_on_disconnect, mc_stops,
                   crash_queue, socket, done, mc_done,
                   bcp_client_connected, thread_stopper, events,
                   receive_queue, sending_queue, sndpc, sndheld, transmitted,
                   stoppc, stopCalls, peer, drained>>

\* accept() times out: no client is waiting.
RunAcceptTimeout ==
    /\ srvpc = "accept"
    /\ connection = NoConnection
    /\ socket = "listening"
    /\ pending = <<>>
    /\ srvpc' = "timeout"
    /\ UNCHANGED <<assetSide, exit_on_disconnect, mc_stops,
                   crash_queue, socket, connection, done, mc_done,
                   bcp_client_connected, thread_stopper, events,
                   receive_queue, sending_queue, sndpc, sndheld, transmitted,
                   stoppc, stopCalls, peer, pending, drained>>

\* `except socket.timeout: if self.mc.thread_stopper.is_set()`: the socket
\* is shut down and closed and run returns, which raises on a socket the
\* sending thread has disposed of; without thread_stopper the loop tries
\* again.
RunAcceptStopped ==
    /\ srvpc = "timeout"
    /\ IF ~thread_stopper
       THEN /\ srvpc' = "accept"
            /\ UNCHANGED <<socket, crash_queue>>
       ELSE IF socket = "listening"
            THEN /\ socket' = "closed"
                 /\ srvpc' = "returned"
                 /\ UNCHANGED crash_queue
            ELSE /\ Crash("shutdown")
                 /\ srvpc' = "crashed"
                 /\ UNCHANGED socket
    /\ UNCHANGED <<assetSide, exit_on_disconnect, mc_stops,
                   connection, done, mc_done,
                   bcp_client_connected, thread_stopper, events,
                   receive_queue, sending_queue, sndpc, sndheld, transmitted,
                   stoppc, stopCalls, peer, pending, drained>>

\* accept() on a socket the sending thread has disposed of raises.
RunAcceptFails ==
    /\ srvpc = "accept"
    /\ connection = NoConnection
    /\ socket # "listening"
    /\ Crash("accept")
    /\ srvpc' = "crashed"
    /\ UNCHANGED <<assetSide, exit_on_disconnect, mc_stops,
                   socket, connection, done, mc_done,
                   bcp_client_connected, thread_stopper, events,
                   receive_queue, sending_queue, sndpc, sndheld, transmitted,
                   stoppc, stopCalls, peer, pending, drained>>

\* Post client_connected with client_address and set the flag.
RunConnected ==
    /\ srvpc = "connected"
    /\ Len(events) < MaxEvents
    /\ events' = Append(events, "client_connected")
    /\ bcp_client_connected' = TRUE
    /\ srvpc' = "loop"
    /\ UNCHANGED <<assetSide, exit_on_disconnect, mc_stops,
                   crash_queue, socket, connection, done, mc_done,
                   thread_stopper, receive_queue, sending_queue, sndpc,
                   sndheld, transmitted, stoppc, stopCalls, peer, pending,
                   drained>>

\* `while not self.mc.thread_stopper.is_set()` is false: back to the top of
\* `while True`.
RunRecvStopped ==
    /\ srvpc = "loop"
    /\ thread_stopper
    /\ srvpc' = "announce"
    /\ UNCHANGED <<assetSide, exit_on_disconnect, mc_stops,
                   crash_queue, socket, connection, done, mc_done,
                   bcp_client_connected, thread_stopper, events,
                   receive_queue, sending_queue, sndpc, sndheld, transmitted,
                   stoppc, stopCalls, peer, pending, drained>>

\* `while not self.mc.thread_stopper.is_set()` is true: the thread calls
\* self.connection.recv(4096) and waits; the connection has no timeout.
RunRecvWaits ==
    /\ srvpc = "loop"
    /\ ~thread_stopper
    /\ srvpc' = "recv"
    /\ UNCHANGED <<assetSide, exit_on_disconnect, mc_stops,
                   crash_queue, socket, connection, done, mc_done,
                   bcp_client_connected, thread_stopper, events,
                   receive_queue, sending_queue, sndpc, sndheld, transmitted,
                   stoppc, stopCalls, peer, pending, drained>>

\* recv returns a chunk: its non-empty lines go to the receiving queue and
\* the loop goes round.
RunRecvData(commands) ==
    /\ srvpc = "recv"
    /\ peer[connection] = "open"
    /\ Len(receive_queue) + Len(ReceivedCommands(commands)) <= MaxReceived
    /\ receive_queue' = receive_queue \o ReceivedCommands(commands)
    /\ srvpc' = "loop"
    /\ UNCHANGED <<assetSide, exit_on_disconnect, mc_stops,
                   crash_queue, socket, connection, done, mc_done,
                   bcp_client_connected, thread_stopper, events,
                   sending_queue, sndpc, sndheld, transmitted, stoppc,
                   stopCalls, peer, pending, drained>>

\* recv returns bytes that are not UTF-8: decode raises.
RunRecvUndecodable ==
    /\ srvpc = "recv"
    /\ peer[connection] = "open"
    /\ Crash("UnicodeDecodeError")
    /\ srvpc' = "crashed"
    /\ UNCHANGED <<assetSide, exit_on_disconnect, mc_stops,
                   socket, connection, done, mc_done,
                   bcp_client_connected, thread_stopper, events,
                   receive_queue, sending_queue, sndpc, sndheld, transmitted,
                   stoppc, stopCalls, peer, pending, drained>>

\* recv returns no data, the client's end is closed or the connection is
\* broken: `break`.
RunRecvNoData ==
    /\ srvpc = "recv"
    /\ peer[connection] \in {"closed", "broken"}
    /\ drained' = drained \cup {connection}
    /\ srvpc' = "announce"
    /\ UNCHANGED <<assetSide, exit_on_disconnect, mc_stops,
                   crash_queue, socket, connection, done, mc_done,
                   bcp_client_connected, thread_stopper, events,
                   receive_queue, sending_queue, sndpc, sndheld, transmitted,
                   stoppc, stopCalls, peer, pending>>

\* recv raises OSError, the client has reset the connection: mc.stop() and
\* round the loop again with exit_on_disconnect, `break` without it.  The
\* error is reported once; on the broken connection later calls of recv
\* return no data and calls of sendall raise.
RunRecvReset ==
    /\ srvpc = "recv"
    /\ peer[connection] = "reset"
    /\ peer' = [peer EXCEPT ![connection] = "broken"]
    /\ IF exit_on_disconnect
       THEN /\ mc_stops' = mc_stops + 1
            /\ srvpc' = "loop"
       ELSE /\ srvpc' = "announce"
            /\ UNCHANGED mc_stops
    /\ UNCHANGED <<assetSide, exit_on_disconnect,
                   crash_queue, socket, connection, done, mc_done,
                   bcp_client_connected, thread_stopper, events,
                   receive_queue, sending_queue, sndpc, sndheld, transmitted,
                   stoppc, stopCalls, pending, drained>>

\* A client connects to the listening socket.
ClientConnects(c) ==
    /\ socket = "listening"
    /\ peer[c] = "unborn"
    /\ \A b \in ConnIds : b < c => peer[b] # "unborn"
    /\ peer' = [peer EXCEPT ![c] = "open"]
    /\ pending' = Append(pending, c)
    /\ UNCHANGED <<assetSide, exit_on_disconnect, mc_stops,
                   crash_queue, socket, connection, done, mc_done,
                   bcp_client_connected, thread_stopper, events,
                   receive_queue, sending_queue, srvpc, sndpc, sndheld,
                   transmitted, stoppc, stopCalls, drained>>

\* A client closes its end, or resets the connection.
ClientLeaves(c, how) ==
    /\ peer[c] = "open"
    /\ peer' = [peer EXCEPT ![c] = how]
    /\ UNCHANGED <<assetSide, exit_on_disconnect, mc_stops,
                   crash_queue, socket, connection, done, mc_done,
                   bcp_client_connected, thread_stopper, events,
                   receive_queue, sending_queue, srvpc, sndpc, sndheld,
                   transmitted, stoppc, stopCalls, pending, drained>>

\* The media controller sets thread_stopper.
SetThreadStopper ==
    /\ ~thread_stopper
    /\ thread_stopper' = TRUE
    /\ UNCHANGED <<assetSide, exit_on_disconnect, mc_stops,
                   crash_queue, socket, connection, done, mc_done,
                   bcp_client_connected, events, receive_queue,
                   sending_queue, srvpc, sndpc, sndheld, transmitted, stoppc,
                   stopCalls, peer, pending, drained>>

\* sending_loop: `while not self.done`: the thread ends, or calls
\* self.sending_queue.get(block=True, timeout=1) and waits.
SendLoopTest ==
    /\ sndpc = "loop"
    /\ sndpc' = IF done THEN "returned" ELSE "get"
    /\ UNCHANGED <<assetSide, exit_on_disconnect, mc_stops,
                   crash_queue, socket, connection, done, mc_done,
                   bcp_client_connected, thread_stopper, events,
                   receive_queue, sending_queue, srvpc, sndheld, transmitted,
                   stoppc, stopCalls, peer, pending, drained>>

\* msg, rawbytes = self.sending_queue.get(...) returns an entry; an entry
\* that does not unpack raises ValueError.
SendGet ==
    /\ sndpc = "get"
    /\ sending_queue # <<>>
    /\ sending_queue' = Tail(sending_queue)
    /\ IF Unpacks(Head(sending_queue))
       THEN /\ sndheld' = Head(sending_queue)
            /\ sndpc' = "send"
            /\ UNCHANGED crash_queue
       ELSE /\ Crash("ValueError")
            /\ sndpc' = "crashed"
            /\ UNCHANGED sndheld
    /\ UNCHANGED <<assetSide, exit_on_disconnect, mc_stops,
                   socket, connection, done, mc_done,
                   bcp_client_connected, thread_stopper, events,
                   receive_queue, srvpc, transmitted, stoppc, stopCalls, peer,
                   pending, drained>>

\* get raises queue.Empty after the timeout.
SendGetTimeout ==
    /\ sndpc = "get"
    /\ sending_queue = <<>>
    /\ sndpc' = "empty"
    /\ UNCHANGED <<assetSide, exit_on_disconnect, mc_stops,
                   crash_queue, socket, connection, done, mc_done,
                   bcp_client_connected, thread_stopper, events,
                   receive_queue, sending_queue, srvpc, sndheld, transmitted,
                   stoppc, stopCalls, peer, pending, drained>>

\* `except queue.Empty: if self.mc.thread_stopper.is_set()`: the socket is
\* shut down, closed and forgotten and the thread returns, which raises on
\* a socket that run has closed; without thread_stopper, `continue`.
SendGetStopped ==
    /\ sndpc = "empty"
    /\ IF ~thread_stopper
       THEN /\ sndpc' = "loop"
            /\ UNCHANGED <<socket, crash_queue>>
       ELSE IF socket = "listening"
            THEN /\ socket' = "none"
                 /\ sndpc' = "returned"
                 /\ UNCHANGED crash_queue
            ELSE /\ Crash("shutdown")
                 /\ sndpc' = "crashed"
                 /\ UNCHANGED socket
    /\ UNCHANGED <<assetSide, exit_on_disconnect, mc_stops,
                   connection, done, mc_done,
                   bcp_client_connected, thread_stopper, events,
                   receive_queue, sending_queue, srvpc, sndheld, transmitted,
                   stoppc, stopCalls, peer, pending, drained>>

\* self.connection.sendall(data) returns: the client's end is open, or the
\* client has closed its end and nothing was sent to it since.  The data
\* sent to a closed end is refused before sendall returns, which breaks the
\* connection.
SendallReturns(c) == c # NoConnection /\ peer[c] \in {"open", "closed"}

\* The connection after sendall: a reset that sendall reports is consumed,
\* so that a later recv returns no data.
PeerAfterSendall(c) ==
    IF c = NoConnection \/ peer[c] = "open"
    THEN peer
    ELSE [peer EXCEPT ![c] = "broken"]

\* The first sendall of an entry: the message line, or the header of an
\* entry with rawbytes.  Without a connection the attribute lookup on None
\* raises; on a connection that is reset or broken sendall raises.
SendItem ==
    /\ sndpc = "send"
    /\ IF SendallReturns(connection)
       THEN /\ Len(transmitted) + Len(Encoded(sndheld[1], sndheld[2]))
                   <= MaxTransmitted
            /\ transmitted' =
                   Append(transmitted, Encoded(sndheld[1], sndheld[2])[1])
            /\ IF sndheld[2] = ""
               THEN /\ sndpc' = "loop"
                    /\ sndheld' = <<>>
               ELSE /\ sndpc' = "send2"
                    /\ UNCHANGED sndheld
            /\ UNCHANGED crash_queue
       ELSE /\ Crash("sendall")
            /\ sndpc' = "crashed"
            /\ sndheld' = <<>>
            /\ UNCHANGED transmitted
    /\ peer' = PeerAfterSendall(connection)
    /\ UNCHANGED <<assetSide, exit_on_disconnect, mc_stops,
                   socket, connection, done, mc_done,
                   bcp_client_connected, thread_stopper, events,
                   receive_queue, sending_queue, srvpc, stoppc, stopCalls,
                   pending, drained>>

\* self.connection.sendall(rawbytes), the second call for an entry with
\* rawbytes.
SendRawbytes ==
    /\ sndpc = "send2"
    /\ IF SendallReturns(connection)
       THEN /\ transmitted' =
                   Append(transmitted, Encoded(sndheld[1], sndheld[2])[2])
            /\ sndpc' = "loop"
            /\ UNCHANGED crash_queue
       ELSE /\ Crash("sendall")
            /\ sndpc' = "crashed"
            /\ UNCHANGED transmitted
    /\ sndheld' = <<>>
    /\ peer' = PeerAfterSendall(connection)
    /\ UNCHANGED <<assetSide, exit_on_disconnect, mc_stops,
                   socket, connection, done, mc_done,
                   bcp_client_connected, thread_stopper, events,
                   receive_queue, sending_queue, srvpc, stoppc, stopCalls,
                   pending, drained>>

\* Other code puts (msg, rawbytes) on the sending queue.
SendingQueuePut(item) ==
    /\ Len(sending_queue) < MaxQueued
    /\ sending_queue' = Append(sending_queue, item)
    /\ UNCHANGED <<assetSide, exit_on_disconnect, mc_stops,
                   crash_queue, socket, connection, done, mc_done,
                   bcp_client_connected, thread_stopper, events,
                   receive_queue, srvpc, sndpc, sndheld, transmitted, stoppc,
                   stopCalls, peer, pending, drained>>

\* stop() up to time.sleep(1): `if not self.done:
\* self.sending_queue.put('goodbye', None)`.
StopBegin ==
    /\ stoppc = "idle"
    /\ stopCalls < MaxStopCalls
    /\ stopCalls' = stopCalls + 1
    /\ IF ~done
       THEN /\ sending_queue' = Append(sending_queue, Goodbye)
            /\ stoppc' = "sleep"
       ELSE UNCHANGED <<sending_queue, stoppc>>
    /\ UNCHANGED <<assetSide, exit_on_disconnect, mc_stops,
                   crash_queue, socket, connection, done, mc_done,
                   bcp_client_connected, thread_stopper, events,
                   receive_queue, srvpc, sndpc, sndheld, transmitted, peer,
                   pending, drained>>

\* stop() after time.sleep(1): self.done = True; self.mc.done = True.
StopEnd ==
    /\ stoppc = "sleep"
    /\ done' = TRUE
    /\ mc_done' = TRUE
    /\ stoppc' = "idle"
    /\ UNCHANGED <<assetSide, exit_on_disconnect, mc_stops,
                   crash_queue, socket, connection,
                   bcp_client_connected, thread_stopper, events,
                   receive_queue, sending_queue, srvpc, sndpc, sndheld,
                   transmitted, stopCalls, peer, pending, drained>>

ServerPriorities == <<5, 1>>

InitServer ==
    /\ priority = [a \in Assets |-> ServerPriorities[AssetId(a)]]
    /\ InitPipeline
    /\ InitRegistry
    /\ InitUnwatched
    /\ InitBooted
    /\ InitNoGroup
    /\ InitServerStarted

\* The thread of run and the clients; nothing is sent and stop() is not
\* called.
NextServer ==
    \/ RunAnnounce
    \/ RunAcceptSkipped
    \/ RunAccepted
    \/ RunAcceptTimeout
    \/ RunAcceptStopped
    \/ RunAcceptFails
    \/ RunConnected
    \/ RunRecvStopped
    \/ RunRecvWaits
    \/ \E commands \in Chunks : RunRecvData(commands)
    \/ RunRecvUndecodable
    \/ RunRecvNoData
    \/ RunRecvReset
    \/ \E c \in ConnIds : ClientConnects(c)
    \/ \E c \in ConnIds, how \in {"closed", "reset"} : ClientLeaves(c, how)
    \/ SetThreadStopper
    \/ SendLoopTest
    \/ SendGetTimeout
    \/ SendGetStopped

SpecServer == InitServer /\ [][NextServer]_vars

\* Steps of the thread of run: it takes up the top of `while True` again,
\* posts client_connected, reads from self.connection.
RunAnnounceStep == srvpc = "announce" /\ srvpc' = "accept"
RunConnectedStep == srvpc = "connected" /\ srvpc' = "loop"
RunReadStep == srvpc = "recv" /\ srvpc' # "recv"
RunNoDataStep == RunReadStep /\ peer[connection] \in {"closed", "broken"}

\* C35: after a connected client disconnects (recv returns no data) with
\* no stop requested, the thread of run takes up the top of its loop, where
\* it posts client_disconnected and sets bcp_client_connected to False, and
\* it neither posts client_connected nor reads from a connection again
\* until accept() has returned a new connection: it does both only on a
\* connection on which recv has not yet returned no data.
C35_NoReconnectWithoutAccept ==
    [][/\ RunNoDataStep => srvpc' = "announce"
       /\ RunAnnounceStep =>
             /\ ~bcp_client_connected'
             /\ events' = Append(events, "client_disconnected")
       /\ (~thread_stopper /\ (RunConnectedStep \/ RunReadStep)) =>
             connection \notin drained]_vars

(***************************************************************************)
(* BCPServer.stop and the sending loop                                     *)
(***************************************************************************)
StopPriorities == <<5, 1>>

\* One client is connected and stays: run has accepted its connection,
\* posted client_connected and waits in recv; the sending thread waits in
\* get.
InitStop ==
    /\ priority = [a \in Assets |-> StopPriorities[AssetId(a)]]
    /\ InitPipeline
    /\ InitRegistry
    /\ InitUnwatched
    /\ InitBooted
    /\ InitNoGroup
    /\ socket = "listening"
    /\ connection = 1
    /\ done = FALSE
    /\ mc_done = FALSE
    /\ bcp_client_connected = TRUE
    /\ thread_stopper = FALSE
    /\ events = <<"client_disconnected", "client_connected">>
    /\ receive_queue = <<>>
    /\ sending_queue = <<>>
    /\ srvpc = "recv"
    /\ sndpc = "get"
    /\ sndheld = <<>>
    /\ transmitted = <<>>
    /\ stoppc = "idle"
    /\ stopCalls = 0
    /\ peer = [c \in ConnIds |-> IF c = 1 THEN "open" ELSE "unborn"]
    /\ pending = <<>>
    /\ drained = {}
    /\ exit_on_disconnect = FALSE
    /\ mc_stops = 0

\* The sending thread, the code that queues messages, and stop().
NextStop ==
    \/ \E item \in Messages : SendingQueuePut(item)
    \/ SendLoopTest
    \/ SendGet
    \/ SendGetTimeout
    \/ SendGetStopped
    \/ SendItem
    \/ SendRawbytes
    \/ StopBegin
    \/ StopEnd

SpecStop == InitStop /\ [][NextStop]_vars

GoodbyeTransmitted ==
    \E i \in 1..Len(transmitted) : transmitted[i] = "goodbye\n"
StopCallStep == stopCalls' = stopCalls + 1

\* C36: stop() called while not done makes the sending loop transmit a
\* 'goodbye' message to the connected client before done becomes true, and
\* the sending thread reports no failure on the crash queue; a second call
\* of stop() has no effect.
C36_StopSendsGoodbye ==
    [][/\ (~done /\ done') => GoodbyeTransmitted'
       /\ crash_queue' = crash_queue
       /\ (StopCallStep /\ done) =>
             UNCHANGED <<sending_queue, done, mc_done, stoppc>>]_vars
====
